---- MODULE Spec2Model ----
(***************************************************************************)
(* A model of the go-red execution core: Message and its Clone             *)
(* (internal/engine/message.go), Node (internal/engine/node.go), Flow and  *)
(* Engine (internal/engine/engine.go) and the Registry.                    *)
(*                                                                         *)
(* Go values that are references (maps, *Message) are modelled as          *)
(* addresses into heaps, so that aliasing between a message and its clone  *)
(* is something the model can exhibit.  Several specifications share the   *)
(* variables: SpecClone (Message.Clone and the setters), SpecNode (one     *)
(* Node: AddWire, Start, Stop, Send), SpecConstruct (NewFlow as a          *)
(* function of the definition) and SpecEngine (Engine and Flow lifecycle). *)
(***************************************************************************)
EXTENDS Integers, Sequences, FiniteSets, TLC

VARIABLES
    \* ---- heap of messages (message.go) ----
    msgs,      \* address -> Message struct (the *Message pointers)
    hdrs,      \* address -> a Headers map  (map[string]string)
    metas,     \* address -> a Metadata map (map[string]interface{})
    cells,     \* address -> a Go map held by reference inside a payload / metadata value
    snap,      \* history: address of a message -> its logical content as of its owner's last write
    nmut,      \* history: number of mutations performed so far
    \* ---- one Node (node.go) ----
    node,      \* the Node struct: ID, Name, Type, Config, wires, running, scope
    hist,      \* history: how the Node got where it is: "new", "started", "startFailed", "stopped"
    pc,        \* position of the Send call in progress: "idle", "loop", "recv", "done"
    sPort,     \* Send's port argument
    sMsg,      \* Send's msg argument (address)
    sIdx,      \* index of the next target in wires[port]
    sResult,   \* Send's outcome
    sRunning,  \* history: Node.running as the Send call found it
    log,       \* events of the current Send call, in order
    lc,        \* history: the Node's Start / Stop calls so far and the last one's outcome
    \* ---- Engine, Flows, Registry, storage (engine.go, registry, storage.go) ----
    def,       \* the flow definition handed to the construction under study
    registry,  \* Registry.nodeTypes: type name -> NodeType
    storage,   \* the persistence collaborator: flow id -> stored definition
    flows,     \* Engine.flows: flow id -> address of the Flow object
    fheap,     \* address -> Flow object (every Flow ever returned by NewFlow)
    estatus,   \* Engine.status
    ectx,      \* Engine.ctx: the generation of the Engine's context
    res,       \* the outcome of the last Engine / Flow call
    nops,      \* history: number of Engine / Flow calls made so far
    \* ---- calls in progress on a Flow (engine.go, node.go) ----
    chain,     \* a delivery chain: the Nodes whose Send is on the stack, the receives made
    dep,       \* a DeployFlow call: its position in the stop of the Flow it replaces
    \* ---- Registry callers (registry.go) ----
    building,  \* a NewFlow under way: the entry of def.Nodes looked up next (0: none), the
               \* Nodes built so far and the factory each was built by
    fcall,     \* a Flow.Start or Flow.Stop under way on the Flow built before: the order
               \* of its range, the Node visited next, the Flow as the call found it
    rlock,     \* Registry.mu: the caller holding the write lock (0: none), the readers
    rcall,     \* per caller: the Registry call in progress or last returned
    rlog,      \* history: the calls returned so far, in order
    \* ---- Flow.ToJSON (engine.go) ----
    json,      \* the definition last returned by Flow.ToJSON
    \* ---- goroutines calling Start, Stop and Send of one Node (node.go) ----
    nlock,     \* Node.mu: the writer, the callers waiting in Lock, each caller's read locks held
    th,        \* per goroutine: the call it is in and its position in it
    ncalls,    \* history: number of calls begun so far
    \* ---- HTTP handlers holding a *Flow (server.go) ----
    held,      \* the id a handler asked Engine.GetFlow for and the Flow object it obtained
    healed,    \* TRUE once every behaviour accepts Start
    ecall,     \* the Engine call that holds Engine.mu for writing: its kind, its id, the
               \* Flows its loop has still to visit, the table and the Flows as it found them
    \* ---- goroutines calling the Engine while a Send is in progress (engine.go) ----
    elock      \* Engine.mu: the writer, the callers waiting in Lock, the callers holding a read lock

heapVars == <<msgs, hdrs, metas, cells, snap, nmut>>
nodeVars == <<node, hist, pc, sPort, sMsg, sIdx, sResult, sRunning, log, lc>>
engineVars == <<def, registry, storage, flows, fheap, estatus, ectx, res, nops>>
chainVars == <<chain, dep>>
regVars == <<rlock, rcall, rlog, building, fcall>>
lockVars == <<nlock, th, ncalls>>
handlerVars == <<held, healed, ecall>>
auxVars == <<regVars, json, lockVars, handlerVars, elock>>
vars == <<heapVars, nodeVars, engineVars, chainVars, auxVars>>

-----------------------------------------------------------------------------
(* Bounds of the model *)

MaxClones == 2
MaxMutations == 2
MaxWires == 2
MaxPort == 1
MaxReceiverWrites == 1
MaxNodeCalls == 3

-----------------------------------------------------------------------------
(* Values: the dynamic values an interface{} can hold *)

Nil == [t |-> "nil", s |-> "", a |-> 0]
StrVal(x) == [t |-> "str", s |-> x, a |-> 0]
IntVal(x) == [t |-> "int", s |-> x, a |-> 0]
FloatVal(x) == [t |-> "float", s |-> x, a |-> 0]
NaN == [t |-> "nan", s |-> "NaN", a |-> 0]
Ref(addr) == [t |-> "ref", s |-> "", a |-> addr]

EmptyMap == [k \in {} |-> Nil]

\* m with key k set to v (Go: m[k] = v)
MapSet(m, k, v) == [x \in (DOMAIN m) \cup {k} |-> IF x = k THEN v ELSE m[x]]

\* m without key k
MapDel(m, k) == [x \in (DOMAIN m) \ {k} |-> m[x]]

\* seq with element i replaced
SeqSet(seq, i, v) == [seq EXCEPT ![i] = v]

-----------------------------------------------------------------------------
(* encoding/json as Clone uses it *)

\* json.Marshal of a value that is not a map
LeafJSON(v) ==
    CASE v.t = "str" -> [j |-> "string", s |-> v.s]
      [] v.t = "int" -> [j |-> "number", s |-> v.s]
      [] v.t = "float" -> [j |-> "number", s |-> v.s]
      [] OTHER -> [j |-> "null", s |-> ""]

\* json.Marshal fails on a NaN float (UnsupportedValueError), also inside a map
MarshalFails(v, cs) ==
    \/ v.t = "nan"
    \/ /\ v.t = "ref"
       /\ \E k \in DOMAIN cs[v.a] : cs[v.a][k].t = "nan"

\* json.Unmarshal into interface{}: every number becomes a float64
LeafFromJSON(j) ==
    CASE j.j = "string" -> StrVal(j.s)
      [] j.j = "number" -> FloatVal(j.s)
      [] OTHER -> Nil

\* The payload branch of Clone: [val, cells] after marshal + unmarshal, or the
\* same reference when marshalling fails ("fallback to shallow copy").
DeepCopyPayload(v, cs) ==
    IF v.t = "nil" THEN [val |-> Nil, cells |-> cs]
    ELSE IF MarshalFails(v, cs) THEN [val |-> v, cells |-> cs]
    ELSE IF v.t = "ref"
         THEN [val |-> Ref(Len(cs) + 1),
               cells |-> Append(cs, [k \in DOMAIN cs[v.a] |-> LeafFromJSON(LeafJSON(cs[v.a][k]))])]
         ELSE [val |-> LeafFromJSON(LeafJSON(v)), cells |-> cs]

-----------------------------------------------------------------------------
(* Message *)

\* Message.Clone giving the copy an id of its own.
Clone_FreshID(a, ms, hs, mds, cs) ==
    LET m == ms[a]
        p == DeepCopyPayload(m.Payload, cs)
        c == [Payload |-> p.val,
              Topic |-> m.Topic,
              Headers |-> Len(hs) + 1,
              Metadata |-> Len(mds) + 1,
              SourceID |-> m.SourceID,
              MsgID |-> "fresh",
              Timestamp |-> m.Timestamp]
    IN [msgs |-> Append(ms, c),
        hdrs |-> Append(hs, [k \in DOMAIN hs[m.Headers] |-> hs[m.Headers][k]]),
        metas |-> Append(mds, [k \in DOMAIN mds[m.Metadata] |-> mds[m.Metadata][k]]),
        cells |-> p.cells,
        addr |-> Len(ms) + 1]

\* Message.Clone on the message at address a: the heaps after the call, and the
\* clone's address.
Clone(a, ms, hs, mds, cs) ==
    LET m == ms[a]
        p == DeepCopyPayload(m.Payload, cs)
        c == [Payload |-> p.val,
              Topic |-> m.Topic,
              Headers |-> Len(hs) + 1,
              Metadata |-> Len(mds) + 1,
              SourceID |-> m.SourceID,
              MsgID |-> m.MsgID,
              Timestamp |-> m.Timestamp]
    IN [msgs |-> Append(ms, c),
        hdrs |-> Append(hs, [k \in DOMAIN hs[m.Headers] |-> hs[m.Headers][k]]),
        metas |-> Append(mds, [k \in DOMAIN mds[m.Metadata] |-> mds[m.Metadata][k]]),
        cells |-> p.cells,
        addr |-> Len(ms) + 1]

\* What a value looks like to a reader: a reference is followed.
Deref(v, cs) ==
    IF v.t = "ref" THEN [t |-> "map", s |-> "", m |-> cs[v.a]]
    ELSE [t |-> v.t, s |-> v.s, m |-> EmptyMap]

\* The logical content of the message at address a.
View(a, ms, hs, mds, cs) ==
    [Payload |-> Deref(ms[a].Payload, cs),
     Topic |-> ms[a].Topic,
     Headers |-> hs[ms[a].Headers],
     Metadata |-> [k \in DOMAIN mds[ms[a].Metadata] |-> Deref(mds[ms[a].Metadata][k], cs)],
     SourceID |-> ms[a].SourceID,
     MsgID |-> ms[a].MsgID,
     Timestamp |-> ms[a].Timestamp]

CurView(a) == View(a, msgs, hdrs, metas, cells)

\* The messages a producer hands to Send: NewMessage(payload, topic) followed by
\* SetHeader / SetMetadata calls.
PayloadKinds == {"nil", "str", "int", "map", "nanmap"}
MetaKinds == {"empty", "str", "map"}
HdrKinds == {"empty", "one"}
MsgShapes == [p : PayloadKinds, md : MetaKinds, h : HdrKinds]

\* The heaps holding one message of the given shape at address 1.
NewMessage(shape) ==
    LET pcell == IF shape.p = "map" THEN <<[k \in {"k"} |-> StrVal("x")]>>
                 ELSE IF shape.p = "nanmap" THEN <<[k \in {"k"} |-> NaN]>>
                 ELSE <<>>
        pval == CASE shape.p = "nil" -> Nil
                  [] shape.p = "str" -> StrVal("x")
                  [] shape.p = "int" -> IntVal("1")
                  [] OTHER -> Ref(1)
        cs == IF shape.md = "map" THEN Append(pcell, [k \in {"k"} |-> StrVal("x")]) ELSE pcell
        md == CASE shape.md = "empty" -> EmptyMap
                [] shape.md = "str" -> [k \in {"mk"} |-> StrVal("x")]
                [] OTHER -> [k \in {"mk"} |-> Ref(Len(cs))]
        hd == IF shape.h = "one" THEN [k \in {"hk"} |-> "a"] ELSE [k \in {} |-> ""]
    IN [msgs |-> <<[Payload |-> pval, Topic |-> "t", Headers |-> 1, Metadata |-> 1,
                    SourceID |-> "src", MsgID |-> "id1", Timestamp |-> 1]>>,
        hdrs |-> <<hd>>,
        metas |-> <<md>>,
        cells |-> cs]

-----------------------------------------------------------------------------
(* The setters a behaviour may call on a message it holds, and the in-place  *)
(* writes Go allows on a map reached through the message.                    *)

\* The writes to its payload a holder of message a can make: each is
\* [msgs, hdrs, metas, cells] after it.
PayloadWrites(a) ==
    LET m == msgs[a]
        same == [msgs |-> msgs, hdrs |-> hdrs, metas |-> metas, cells |-> cells]
    IN  \* Message.SetPayload
        {[same EXCEPT !.msgs = SeqSet(msgs, a, [m EXCEPT !.Payload = StrVal("z")])]}
        \cup
        \* msg.Payload.(map[string]interface{})["k"] = "z"
        (IF m.Payload.t = "ref"
         THEN {[same EXCEPT !.cells = SeqSet(cells, m.Payload.a, MapSet(cells[m.Payload.a], "k", StrVal("z")))]}
         ELSE {})

\* The writes to the other fields.
FieldWrites(a) ==
    LET m == msgs[a]
        same == [msgs |-> msgs, hdrs |-> hdrs, metas |-> metas, cells |-> cells]
    IN  \* Message.SetHeader
        {[same EXCEPT !.hdrs = SeqSet(hdrs, m.Headers, MapSet(hdrs[m.Headers], "hk", "z"))]}
        \cup
        \* Message.SetMetadata
        {[same EXCEPT !.metas = SeqSet(metas, m.Metadata, MapSet(metas[m.Metadata], "mk", StrVal("z")))]}
        \cup
        \* v, _ := msg.GetMetadata("mk"); v.(map[string]interface{})["k"] = "z"
        (IF "mk" \in DOMAIN metas[m.Metadata] /\ metas[m.Metadata]["mk"].t = "ref"
         THEN LET r == metas[m.Metadata]["mk"].a
              IN {[same EXCEPT !.cells = SeqSet(cells, r, MapSet(cells[r], "k", StrVal("z")))]}
         ELSE {})
        \cup
        \* Message.SetTopic
        {[same EXCEPT !.msgs = SeqSet(msgs, a, [m EXCEPT !.Topic = "z"])]}

\* Message.FromJSON(data): json.Unmarshal into the message itself.  The fields
\* the JSON names are overwritten, identity fields included; a map field that is
\* not nil is reused and gets the JSON's entries written into it.
FromJSONWrites(a) ==
    LET m == msgs[a]
        same == [msgs |-> msgs, hdrs |-> hdrs, metas |-> metas, cells |-> cells]
    IN  \* {"msgId":"other","payload":"z"}
        {[same EXCEPT !.msgs = SeqSet(msgs, a, [m EXCEPT !.MsgID = "other", !.Payload = StrVal("z")])]}
        \cup
        \* {"topic":"z","sourceId":"other","timestamp":<later>,"headers":{"hk":"z"},"metadata":{"mk":"z"}}
        {[same EXCEPT !.msgs = SeqSet(msgs, a, [m EXCEPT !.Topic = "z", !.SourceID = "other",
                                                         !.Timestamp = m.Timestamp + 1]),
                      !.hdrs = SeqSet(hdrs, m.Headers, MapSet(hdrs[m.Headers], "hk", "z")),
                      !.metas = SeqSet(metas, m.Metadata, MapSet(metas[m.Metadata], "mk", StrVal("z")))]}

\* The holder of the message at address a makes one of the given writes.
Mutate(a, writes, max) ==
    /\ nmut < max
    /\ \E h \in writes :
         /\ msgs' = h.msgs
         /\ hdrs' = h.hdrs
         /\ metas' = h.metas
         /\ cells' = h.cells
         /\ snap' = [snap EXCEPT ![a] = View(a, h.msgs, h.hdrs, h.metas, h.cells)]
    /\ nmut' = nmut + 1

-----------------------------------------------------------------------------
(* Node *)

\* The behaviours a Node under test is wired to (NodeInstance references).
Targets == {"t1", "t2"}

\* The contexts a Node can be started under: none yet, the context of an HTTP
\* request (server.go handleStartFlow), or the Engine's context of generation g >= 1.
NoCtx == -1
RequestCtx == 0

\* NewNode: the Node as constructed, before any AddWire.  instance identifies the
\* behaviour object the factory returned.
NewNodeRec(id, name, type, config, instance) ==
    [ID |-> id, Name |-> name, Type |-> type, Config |-> config, instance |-> instance,
     wires |-> <<>>, running |-> FALSE, scope |-> "none", parent |-> NoCtx]

\* Node.AddWire(port, target): the port table grows up to port, then the target's
\* instance is appended to that port's list.  wires[p + 1] is port p.  A negative
\* port skips the growth loop and indexes out of range: the call panics.
AddWire(n, port, target) ==
    IF port < 0 THEN [panic |-> TRUE, node |-> n]
    ELSE LET grown == IF Len(n.wires) <= port
                      THEN n.wires \o [i \in 1..(port + 1 - Len(n.wires)) |-> <<>>]
                      ELSE n.wires
         IN [panic |-> FALSE,
             node |-> [n EXCEPT !.wires = [grown EXCEPT ![port + 1] = Append(@, target.instance)]]]

\* Node.Start(ctx): ok says whether the behaviour's Start(ctx) succeeds.
\* Node.Start that leaves the derived context alone when the behaviour fails.
NodeStart_NoCancelOnFailure(n, ctx, ok) ==
    IF n.running THEN [err |-> "AlreadyRunning", node |-> n, invoked |-> FALSE, cancelled |-> FALSE]
    ELSE IF ~ok THEN [err |-> "StartError",
                      node |-> [n EXCEPT !.scope = "live", !.parent = ctx],
                      invoked |-> TRUE, cancelled |-> FALSE]
    ELSE [err |-> "ok", node |-> [n EXCEPT !.scope = "live", !.parent = ctx, !.running = TRUE],
          invoked |-> TRUE, cancelled |-> FALSE]

\* invoked: the behaviour's Start was called; cancelled: n.cancel was called.
NodeStart(n, ctx, ok) ==
    IF n.running THEN [err |-> "AlreadyRunning", node |-> n, invoked |-> FALSE, cancelled |-> FALSE]
    ELSE IF ~ok THEN [err |-> "StartError",
                      node |-> [n EXCEPT !.scope = "cancelled", !.parent = ctx],
                      invoked |-> TRUE, cancelled |-> TRUE]
    ELSE [err |-> "ok", node |-> [n EXCEPT !.scope = "live", !.parent = ctx, !.running = TRUE],
          invoked |-> TRUE, cancelled |-> FALSE]

\* Node.Stop() without the test of the running flag.
NodeStop_NoRunningCheck(n) ==
    [stopped |-> TRUE, cancelled |-> n.scope # "none",
     node |-> [n EXCEPT !.scope = IF @ = "none" THEN @ ELSE "cancelled", !.running = FALSE]]

\* Node.Stop(): stopped says whether the behaviour's Stop was invoked, cancelled
\* whether n.cancel was.
NodeStop(n) ==
    IF ~n.running THEN [stopped |-> FALSE, cancelled |-> FALSE, node |-> n]
    ELSE [stopped |-> TRUE, cancelled |-> TRUE,
          node |-> [n EXCEPT !.scope = "cancelled", !.running = FALSE]]

\* Mutant of SendEntry: the running check is missing.
SendEntry_NoRunningCheck(n, port) ==
    IF port >= Len(n.wires) THEN "ok"
    ELSE IF port < 0 THEN "panic"
    ELSE "loop"

\* Mutant of SendEntry: a port beyond the port table is reported as an error.
SendEntry_UnwiredIsError(n, port) ==
    IF ~n.running THEN "NotRunning"
    ELSE IF port >= Len(n.wires) THEN "DeliveryError"
    ELSE IF port < 0 THEN "panic"
    ELSE "loop"

\* Node.Send, the checks before the delivery loop: the outcome, or "loop" when
\* the loop over wires[port] is entered.
SendEntry(n, port) ==
    IF ~n.running THEN "NotRunning"
    ELSE IF port >= Len(n.wires) THEN "ok"
    ELSE IF port < 0 THEN "panic"
    ELSE "loop"

\* Mutant of DeliveryTarget: the port's targets are visited last to first.
DeliveryTarget_Reversed(n, port, i) == n.wires[port + 1][Len(n.wires[port + 1]) + 1 - i]

\* The target of the i-th delivery of a Send on port (range over n.wires[port]).
DeliveryTarget(n, port, i) == n.wires[port + 1][i]

\* The inbound port OnMessage is called with.
InboundPort(port) == 0

\* Mutant of AfterReceive: the error of OnMessage is dropped and the loop goes on.
AfterReceive_IgnoreError(ok, idx) == [pc |-> "loop", idx |-> idx + 1, result |-> "none"]

\* Send after target.OnMessage returned: go on with the next target, or return
\* the wrapped error.
AfterReceive(ok, idx) ==
    IF ok THEN [pc |-> "loop", idx |-> idx + 1, result |-> "none"]
    ELSE [pc |-> "done", idx |-> idx, result |-> "DeliveryError"]

-----------------------------------------------------------------------------
(* Flow definitions: what json.Unmarshal yields from the definition bytes *)

MaxDefNodes == 2
MaxDefWires == 2

\* The node entries a definition is composed of: id, type, name, config.
\* "ghost" is a type the Registry does not hold; "bad" is a config the behaviour's
\* Init rejects.
NodeDefAlphabet ==
    {[ID |-> "A", Type |-> "echo", Name |-> "n1", Config |-> "ok"],
     [ID |-> "A", Type |-> "debug", Name |-> "n2", Config |-> "ok"],
     [ID |-> "B", Type |-> "echo", Name |-> "n1", Config |-> "ok"],
     [ID |-> "B", Type |-> "echo", Name |-> "n1", Config |-> "bad"],
     [ID |-> "B", Type |-> "ghost", Name |-> "n1", Config |-> "ok"]}

\* The wire entries: source, target, port.  "Z" is the id of no node.
WireDefAlphabet ==
    {[Source |-> "A", Target |-> "B", Port |-> 0],
     [Source |-> "A", Target |-> "B", Port |-> 1],
     [Source |-> "A", Target |-> "A", Port |-> 0],
     [Source |-> "B", Target |-> "A", Port |-> 0],
     [Source |-> "A", Target |-> "B", Port |-> -1],
     [Source |-> "Z", Target |-> "B", Port |-> 0],
     [Source |-> "A", Target |-> "Z", Port |-> 0]}

SeqsUpTo(S, n) == UNION {[1..k -> S] : k \in 0..n}

MalformedDef == [malformed |-> TRUE, ID |-> "", Name |-> "", Nodes |-> <<>>, Wires |-> <<>>]

Defs ==
    {MalformedDef} \cup
    {[malformed |-> FALSE, ID |-> "", Name |-> "flow", Nodes |-> ns, Wires |-> ws] :
        ns \in SeqsUpTo(NodeDefAlphabet, MaxDefNodes), ws \in SeqsUpTo(WireDefAlphabet, MaxDefWires)}

-----------------------------------------------------------------------------
(* Registry and Flow construction *)

\* Registry.GetNodeType: whether the name is registered.
Registered(reg, name) == name \in DOMAIN reg

\* NodeInstance.Init(config) of the behaviours used here: a config is rejected
\* when it is "bad".
BehaviourInit(factory, config) == config # "bad"

NoFlow == [nil |-> TRUE]

\* NewFlow, the loop over def.Nodes from entry i on: [err, nodes].
RECURSIVE BuildNodes(_, _, _, _)
BuildNodes(nds, i, nodes, reg) ==
    IF i > Len(nds) THEN [err |-> "ok", nodes |-> nodes]
    ELSE IF ~Registered(reg, nds[i].Type) THEN [err |-> "UnknownNodeType", nodes |-> nodes]
    ELSE IF ~BehaviourInit(reg[nds[i].Type].Factory, nds[i].Config)
         THEN [err |-> "NodeConstructionError", nodes |-> nodes]
    ELSE BuildNodes(nds, i + 1,
                    MapSet(nodes, nds[i].ID,
                           NewNodeRec(nds[i].ID, nds[i].Name, reg[nds[i].Type].Name, nds[i].Config, i)),
                    reg)

\* NewFlow, the loop over def.Wires from entry i on: [err, nodes, wires].
RECURSIVE ConnectWires(_, _, _, _)
ConnectWires(wds, i, nodes, wmap) ==
    IF i > Len(wds) THEN [err |-> "ok", nodes |-> nodes, wires |-> wmap]
    ELSE IF wds[i].Source \notin DOMAIN nodes \/ wds[i].Target \notin DOMAIN nodes
         THEN [err |-> "DanglingWireReference", nodes |-> nodes, wires |-> wmap]
    ELSE LET src == wds[i].Source
             w2 == MapSet(wmap, src,
                          Append(IF src \in DOMAIN wmap THEN wmap[src] ELSE <<>>, wds[i].Target))
             r == AddWire(nodes[src], wds[i].Port, nodes[wds[i].Target])
         IN IF r.panic THEN [err |-> "panic", nodes |-> nodes, wires |-> w2]
            ELSE ConnectWires(wds, i + 1, MapSet(nodes, src, r.node), w2)

\* NewFlow, its second half, with the Nodes built: the loop over def.Wires and
\* the Flow returned: [err, flow].
WireFlow(id, d, nodes) ==
    LET cw == ConnectWires(d.Wires, 1, nodes, <<>>)
    IN IF cw.err # "ok" THEN [err |-> cw.err, flow |-> NoFlow]
       ELSE [err |-> "ok",
             flow |-> [ID |-> IF d.ID = "" THEN id ELSE d.ID,
                       Name |-> d.Name,
                       Nodes |-> cw.nodes,
                       Wires |-> cw.wires,
                       status |-> "stopped"]]

\* NewFlow(id, flowDef, engine): [err, flow]; flow is NoFlow on any error.
NewFlow(id, d, reg) ==
    IF d.malformed THEN [err |-> "UnmarshalError", flow |-> NoFlow]
    ELSE LET nb == BuildNodes(d.Nodes, 1, <<>>, reg)
         IN IF nb.err # "ok" THEN [err |-> nb.err, flow |-> NoFlow]
            ELSE WireFlow(id, d, nb.nodes)

-----------------------------------------------------------------------------
(* Flow and Engine lifecycle *)

\* The order in which a range over the map f.Nodes visits the ids: any order.
NodeIds == {"A", "B"}
Perms(S) == {p \in [1..Cardinality(S) -> S] : \A x \in S : \E i \in DOMAIN p : p[i] = x}
IsMember(x, S) == x \in S
OrderOf(S, perm) == SelectSeq(perm, LAMBDA x : IsMember(x, S))

\* Flow.Start, the loop over f.Nodes in the given order from position i on;
\* fails is the set of nodes whose behaviour's Start fails: [err, nodes, attempted].
RECURSIVE StartNodes(_, _, _, _, _)
StartNodes(nodes, order, i, ctx, fails) ==
    IF i > Len(order) THEN [err |-> "ok", nodes |-> nodes, attempted |-> order]
    ELSE LET r == NodeStart(nodes[order[i]], ctx, order[i] \notin fails)
         IN IF r.err # "ok"
            THEN [err |-> r.err, nodes |-> [nodes EXCEPT ![order[i]] = r.node],
                  attempted |-> SubSeq(order, 1, i)]
            ELSE StartNodes([nodes EXCEPT ![order[i]] = r.node], order, i + 1, ctx, fails)

\* Flow.Start(ctx): [err, flow, attempted].
FlowStart(f, ctx, perm, fails) ==
    IF f.status = "running" THEN [err |-> "AlreadyRunning", flow |-> f, attempted |-> <<>>]
    ELSE LET r == StartNodes(f.Nodes, OrderOf(DOMAIN f.Nodes, perm), 1, ctx, fails)
         IN [err |-> r.err,
             flow |-> [f EXCEPT !.Nodes = r.nodes,
                                !.status = IF r.err = "ok" THEN "running" ELSE @],
             attempted |-> r.attempted]

\* Flow.Stop() without the test of the status.
FlowStop_NoStatusCheck(f) ==
    [f EXCEPT !.Nodes = [n \in DOMAIN f.Nodes |-> NodeStop(f.Nodes[n]).node],
              !.status = "stopped"]

\* Flow.Stop(): the Nodes on which Stop is called, in the order of the range.
FlowStopVisits(f, perm) ==
    IF f.status # "running" THEN <<>> ELSE OrderOf(DOMAIN f.Nodes, perm)

\* Flow.Stop().
FlowStop(f) ==
    IF f.status # "running" THEN f
    ELSE [f EXCEPT !.Nodes = [n \in DOMAIN f.Nodes |-> NodeStop(f.Nodes[n]).node],
                   !.status = "stopped"]

-----------------------------------------------------------------------------
(* SpecClone: Message.Clone applied to a message, and writes to the copies *)

\* The Registry after start-up, here holding two behaviour types.
\* Flow.ToJSON, the loop over f.Wires from source i of the range order on: one
\* wire per target of the source's list, its Port the position in that list.
RECURSIVE WireDefsOf(_, _, _)
WireDefsOf(f, worder, i) ==
    IF i > Len(worder) THEN <<>>
    ELSE [k \in 1..Len(f.Wires[worder[i]]) |->
             [Source |-> worder[i], Target |-> f.Wires[worder[i]][k], Port |-> k - 1]]
         \o WireDefsOf(f, worder, i + 1)

\* Flow.ToJSON: the definition rebuilt from f.Nodes and f.Wires, the two maps
\* ranged over in the orders norder and worder.
ToJSON(f, norder, worder) ==
    [malformed |-> FALSE, ID |-> f.ID, Name |-> f.Name,
     Nodes |-> [i \in 1..Len(norder) |->
                   [ID |-> f.Nodes[norder[i]].ID, Type |-> f.Nodes[norder[i]].Type,
                    Name |-> f.Nodes[norder[i]].Name, Config |-> f.Nodes[norder[i]].Config]],
     Wires |-> WireDefsOf(f, worder, 1)]

BuiltinTypes ==
    [t \in {"echo", "debug"} |-> [Name |-> t, Category |-> "test", Factory |-> t]]

EmptyDef == [malformed |-> FALSE, ID |-> "", Name |-> "", Nodes |-> <<>>, Wires |-> <<>>]
NoResult == [op |-> "none", id |-> "", ref |-> 0, err |-> "", was |-> "", attempted |-> <<>>,
             outcomes |-> <<>>]

\* engine.New over a store holding st: no flows, status stopped, a fresh context.
EngineNewOn(st) ==
    /\ registry = BuiltinTypes
    /\ storage = st
    /\ flows = <<>>
    /\ fheap = <<>>
    /\ estatus = "stopped"
    /\ ectx = 1
    /\ res = NoResult
    /\ nops = 0

\* engine.New over an empty store.
EngineNew ==
    /\ registry = BuiltinTypes
    /\ storage = <<>>
    /\ flows = <<>>
    /\ fheap = <<>>
    /\ estatus = "stopped"
    /\ ectx = 1
    /\ res = NoResult
    /\ nops = 0

\* No delivery chain and no DeployFlow call in progress.
NoChain == [state |-> "idle", stack |-> <<>>, recv |-> <<>>, pend |-> "", err |-> "", late |-> {}]
NoDeploy == [pc |-> "idle", d |-> EmptyDef, order |-> <<>>, i |-> 0]

\* No Start or Stop call made yet on the Node.
NoCall == [n |-> 0, op |-> "none", err |-> "", was |-> FALSE,
           invoked |-> 0, starts |-> 0, stops |-> 0, cancels |-> 0]

\* No Registry call made: the lock free, every caller idle.
NoRegCall == [op |-> "none", arg |-> [Name |-> "", Category |-> "", Factory |-> ""],
              pc |-> "idle", found |-> FALSE, err |-> "", acc |-> <<>>, ret |-> <<>>]
RegProcs == {1, 2}
\* No NewFlow under way.
NoBuild == [i |-> 0, nodes |-> <<>>, factories |-> <<>>]
\* No Flow.Start or Flow.Stop under way.
NoFlowCall == [op |-> "none", order |-> <<>>, i |-> 0, found |-> [nil |-> TRUE]]
RegistryIdle ==
    /\ rlock = [writer |-> 0, readers |-> {}]
    /\ rcall = [p \in RegProcs |-> NoRegCall]
    /\ rlog = <<>>
    /\ building = NoBuild
    /\ fcall = NoFlowCall

\* No handler holds a Flow obtained from Engine.GetFlow.
NoHeld == [id |-> "", ref |-> 0]

\* No Engine call holds Engine.mu for writing.
NoEngineCall == [op |-> "none", id |-> "", todo |-> <<>>, flows |-> <<>>, fheap |-> <<>>]

\* Engine.mu held by nobody.
EngineLockFree == [writer |-> 0, waiting |-> {}, readers |-> {}]

\* No definition serialized so far.
NoJSON == [nil |-> TRUE]

\* The goroutines: two that send, one that starts and stops.
Senders == {1, 2}
Controller == 3
Threads == Senders \cup {Controller}
NoThreadCall == [op |-> "none", pc |-> "idle", err |-> "", done |-> <<>>]
\* No goroutine is in a call of the Node: the lock is free.
LockIdle ==
    /\ nlock = [writer |-> 0, waiting |-> {}, readers |-> [t \in Threads |-> 0]]
    /\ th = [t \in Threads |-> NoThreadCall]
    /\ ncalls = 0

NodeIdle ==
    /\ RegistryIdle
    /\ held = NoHeld
    /\ healed = FALSE
    /\ ecall = NoEngineCall
    /\ elock = EngineLockFree
    /\ json = NoJSON
    /\ LockIdle
    /\ node = NewNodeRec("n", "n", "echo", "ok", "n")
    /\ hist = "new"
    /\ pc = "idle"
    /\ sPort = 0
    /\ sMsg = 0
    /\ sIdx = 0
    /\ sResult = "none"
    /\ sRunning = FALSE
    /\ log = <<>>
    /\ lc = NoCall
    /\ chain = NoChain
    /\ dep = NoDeploy

InitClone ==
    /\ \E shape \in MsgShapes :
         LET h == NewMessage(shape)
         IN /\ msgs = h.msgs
            /\ hdrs = h.hdrs
            /\ metas = h.metas
            /\ cells = h.cells
            /\ snap = <<View(1, h.msgs, h.hdrs, h.metas, h.cells)>>
    /\ nmut = 0
    /\ NodeIdle
    /\ def = EmptyDef
    /\ EngineNew

\* A copy of the original (address 1) is made, as Send does per target.
CloneStep ==
    /\ Len(msgs) < 1 + MaxClones
    /\ LET h == Clone(1, msgs, hdrs, metas, cells)
       IN /\ msgs' = h.msgs
          /\ hdrs' = h.hdrs
          /\ metas' = h.metas
          /\ cells' = h.cells
          /\ snap' = Append(snap, View(h.addr, h.msgs, h.hdrs, h.metas, h.cells))
    /\ UNCHANGED <<nmut, nodeVars, engineVars, chainVars, auxVars>>

\* The receiver of a copy writes to it.
MutateCopy ==
    /\ \E a \in 2..Len(msgs) :
         Mutate(a, PayloadWrites(a) \cup FieldWrites(a) \cup FromJSONWrites(a), MaxMutations)
    /\ UNCHANGED <<nodeVars, engineVars, chainVars, auxVars>>

NextClone == CloneStep \/ MutateCopy

SpecClone == InitClone /\ [][NextClone]_vars

\* C3 (as claimed): every copy made by Message.Clone is independent of its source
\* in every field: whatever the holder of one copy writes to its payload, headers
\* or metadata, the original and the sibling copies keep the content they had.
C3_CopiesIndependent ==
    \A a \in 1..Len(msgs) : CurView(a) = snap[a]

-----------------------------------------------------------------------------
(* SpecNode: one Node, wired by AddWire, started and stopped, and sent on.   *)
(* Start, Stop and AddWire hold the Node's write lock; Send holds the read   *)
(* lock from its entry to its return, so they act only between Send calls.   *)

NoSendInFlight == pc \in {"idle", "done"}

RECURSIVE SumLen(_)
SumLen(w) == IF w = <<>> THEN 0 ELSE Len(Head(w)) + SumLen(Tail(w))

\* The messages handed to Send in this specification.
SendShapes == {sh \in MsgShapes : sh.md = "empty" /\ sh.h = "empty"}

InitNode ==
    /\ msgs = <<>>
    /\ hdrs = <<>>
    /\ metas = <<>>
    /\ cells = <<>>
    /\ snap = <<>>
    /\ nmut = 0
    /\ NodeIdle
    /\ def = EmptyDef
    /\ EngineNew

\* Flow construction wires the Node before it is started.
NodeAddWire ==
    /\ hist = "new"
    /\ NoSendInFlight
    /\ SumLen(node.wires) < MaxWires
    /\ \E port \in -1..MaxPort, target \in Targets :
         node' = AddWire(node, port, [instance |-> target]).node
    /\ UNCHANGED <<heapVars, engineVars, hist, pc, sPort, sMsg, sIdx, sResult, sRunning, log, lc, chainVars, auxVars>>

NodeStartStep ==
    /\ NoSendInFlight
    /\ \E ok \in BOOLEAN :
         LET r == NodeStart(node, RequestCtx, ok)
         IN /\ node' = r.node
            /\ hist' = CASE r.err = "ok" -> "started"
                         [] r.err = "StartError" -> "startFailed"
                         [] OTHER -> hist
    /\ UNCHANGED <<heapVars, engineVars, pc, sPort, sMsg, sIdx, sResult, sRunning, log, lc, chainVars, auxVars>>

NodeStopStep ==
    /\ NoSendInFlight
    /\ LET r == NodeStop(node)
       IN /\ node' = r.node
          /\ hist' = IF r.stopped THEN "stopped" ELSE hist
    /\ UNCHANGED <<heapVars, engineVars, pc, sPort, sMsg, sIdx, sResult, sRunning, log, lc, chainVars, auxVars>>

\* A behaviour calls Send(msg, port) with a message it has just built.
SendBegin ==
    /\ NoSendInFlight
    /\ \E shape \in SendShapes, port \in -1..(MaxPort + 1) :
         LET h == NewMessage(shape)
             e == SendEntry(node, port)
         IN /\ msgs' = h.msgs
            /\ hdrs' = h.hdrs
            /\ metas' = h.metas
            /\ cells' = h.cells
            /\ snap' = <<View(1, h.msgs, h.hdrs, h.metas, h.cells)>>
            /\ sPort' = port
            /\ pc' = IF e = "loop" THEN "loop" ELSE "done"
            /\ sResult' = IF e = "loop" THEN "none" ELSE e
    /\ nmut' = 0
    /\ sMsg' = 1
    /\ sIdx' = 1
    /\ sRunning' = node.running
    /\ log' = <<>>
    /\ UNCHANGED <<node, hist, lc, engineVars, chainVars, auxVars>>

\* One turn of the loop: the message is cloned and handed to the next target,
\* or the targets are exhausted and Send returns nil.
SendLoop ==
    /\ pc = "loop"
    /\ IF sIdx > Len(node.wires[sPort + 1])
       THEN /\ pc' = "done"
            /\ sResult' = "ok"
            /\ UNCHANGED <<heapVars, log>>
       ELSE LET h == Clone(sMsg, msgs, hdrs, metas, cells)
            IN /\ msgs' = h.msgs
               /\ hdrs' = h.hdrs
               /\ metas' = h.metas
               /\ cells' = h.cells
               /\ snap' = Append(snap, View(h.addr, h.msgs, h.hdrs, h.metas, h.cells))
               /\ log' = Append(log, [e |-> "call", target |-> DeliveryTarget(node, sPort, sIdx),
                                      port |-> InboundPort(sPort), msg |-> h.addr, ok |-> TRUE])
               /\ pc' = "recv"
               /\ UNCHANGED <<nmut, sResult>>
    /\ UNCHANGED <<node, hist, lc, sPort, sMsg, sIdx, sRunning, engineVars, chainVars, auxVars>>

\* The target's OnMessage returns, with or without an error.
ReceiveReturn ==
    /\ pc = "recv"
    /\ \E ok \in BOOLEAN :
         LET r == AfterReceive(ok, sIdx)
             c == log[Len(log)]
         IN /\ pc' = r.pc
            /\ sIdx' = r.idx
            /\ sResult' = r.result
            /\ log' = Append(log, [c EXCEPT !.e = "ret", !.ok = ok])
    /\ UNCHANGED <<heapVars, node, hist, lc, sPort, sMsg, sRunning, engineVars, chainVars, auxVars>>

\* A target writes to the copy it was handed (during its OnMessage or later).
ReceiverMutates ==
    /\ \E a \in 2..Len(msgs) : Mutate(a, PayloadWrites(a) \cup FromJSONWrites(a), MaxReceiverWrites)
    /\ UNCHANGED <<nodeVars, engineVars, chainVars, auxVars>>

NextNode ==
    \/ NodeAddWire
    \/ NodeStartStep
    \/ NodeStopStep
    \/ SendBegin
    \/ SendLoop
    \/ ReceiveReturn
    \/ ReceiverMutates

SpecNode == InitNode /\ [][NextNode]_vars

\* The deliveries (OnMessage calls) of the current Send call.
Calls == {i \in 1..Len(log) : log[i].e = "call"}

\* C1: Send on a Node that is not running (never started, stopped, or start
\* failed) returns NotRunning and invokes OnMessage on no target, whatever the
\* message and the port; it clones nothing and never enters the delivery loop.
C1_SendOnStoppedFails ==
    /\ (pc = "done" /\ ~sRunning) => (sResult = "NotRunning" /\ log = <<>> /\ Len(msgs) = 1)
    /\ (pc \in {"loop", "recv"}) => sRunning

\* C1 witness: a Node that was started and stopped, with a target wired on the
\* port sent on, refused the Send.
C1_Witness ==
    /\ pc = "done" /\ ~sRunning /\ hist = "stopped" /\ sResult = "NotRunning"
    /\ sPort >= 0 /\ sPort < Len(node.wires) /\ node.wires[sPort + 1] # <<>>

\* C2 (as claimed): a Send that returns nil on a running Node whose port holds N
\* wire entries made exactly N OnMessage calls, each with its own message object,
\* distinct from the original and from its siblings, and a write to one delivered
\* copy's payload (replacing it, or changing it in place) shows in no other copy
\* and not in the original.
C2_NIndependentClones ==
    (pc = "done" /\ sResult = "ok" /\ sRunning /\ sPort < Len(node.wires)) =>
        /\ Cardinality(Calls) = Len(node.wires[sPort + 1])
        /\ \A i \in Calls : log[i].msg # sMsg
        /\ \A i, j \in Calls : i # j => log[i].msg # log[j].msg
        /\ \A a \in 1..Len(msgs) : CurView(a).Payload = snap[a].Payload

\* C4: Send on a running Node returns nil and calls no OnMessage when the port
\* has no wires: the port lies beyond the port table, or inside it with an empty
\* list (AddWire grew the table for a higher port).
C4_UnwiredPortSucceeds ==
    (pc = "done" /\ sRunning /\ sPort >= 0
        /\ (sPort >= Len(node.wires) \/ node.wires[sPort + 1] = <<>>))
    => (sResult = "ok" /\ log = <<>> /\ Len(msgs) = 1)

\* C4 witness: port 0 is inside the table and empty, the table having been grown
\* for port 1, and a Send on port 0 of the running Node returned nil.
C4_Witness ==
    /\ pc = "done" /\ sRunning /\ sResult = "ok" /\ sPort = 0
    /\ Len(node.wires) = 2 /\ node.wires[1] = <<>> /\ node.wires[2] # <<>>

\* C5: the deliveries of a Send go to the port's targets in wiring order, each
\* on inbound port 0, one at a time: a delivery begins only after the previous
\* one returned, and Send returns only after the last one returned.
C5_OrderedSynchronous ==
    /\ \A i \in 1..Len(log) :
         /\ log[i].port = 0
         /\ (i % 2 = 1) => /\ log[i].e = "call"
                           /\ (i + 1) \div 2 <= Len(node.wires[sPort + 1])
                           /\ log[i].target = node.wires[sPort + 1][(i + 1) \div 2]
         /\ (i % 2 = 0) => /\ log[i].e = "ret"
                           /\ log[i].target = log[i - 1].target
                           /\ log[i].msg = log[i - 1].msg
    /\ (pc = "done") => (Len(log) % 2 = 0)
    /\ (pc = "done" /\ sResult = "ok" /\ sPort < Len(node.wires) /\ sRunning)
          => Len(log) = 2 * Len(node.wires[sPort + 1])
    /\ (Len(log) % 2 = 1) => (pc = "recv")

\* C5 witness: a Send on source port 1 wired to t2 then t1 has returned, having
\* delivered to t2 first and t1 second.
C5_Witness ==
    /\ pc = "done" /\ sResult = "ok" /\ sPort = 1
    /\ Len(node.wires) = 2 /\ node.wires[2] = <<"t2", "t1">>
    /\ Len(log) = 4 /\ log[1].target = "t2" /\ log[3].target = "t1"

\* C6: when the k-th target's OnMessage fails, Send returns an error, no target
\* after k is delivered to (and no further clone is made), and the deliveries to
\* the targets before k stay as they were made.
C6_FailureAborts ==
    /\ \A i \in 1..Len(log) :
         (log[i].e = "ret" /\ ~log[i].ok) =>
            /\ i = Len(log)
            /\ pc = "done" /\ sResult = "DeliveryError"
            /\ Len(msgs) = 1 + (i \div 2)
            /\ \A k \in 1..((i \div 2) - 1) :
                 /\ log[2 * k - 1].e = "call"
                 /\ log[2 * k - 1].target = node.wires[sPort + 1][k]
                 /\ log[2 * k].e = "ret" /\ log[2 * k].ok
    /\ (sResult = "DeliveryError") => (log # <<>> /\ ~log[Len(log)].ok)

\* C6 witness: on a port wired to two targets the first delivery failed; Send
\* returned the error and the second target was not called.
C6_Witness ==
    /\ pc = "done" /\ sResult = "DeliveryError"
    /\ Len(node.wires[sPort + 1]) = 2 /\ Len(log) = 2 /\ ~log[2].ok

-----------------------------------------------------------------------------
(* Engine operations *)

MaxFlowObjects == 2

\* DeployFlow, its first statements: existingFlow.Stop() on the Flow the table
\* holds under id.  The Flow objects afterwards.
DeployStopped(id) ==
    IF id \in DOMAIN flows
    THEN SeqSet(fheap, flows[id], FlowStop(fheap[flows[id]]))
    ELSE fheap

\* DeployRest saving the definition only once the Flow is constructed.
DeployRest_SaveAfterBuild(id, d, saveOk, perm, fails, heap) ==
    LET r == NewFlow(id, d, registry)
        st == IF estatus = "running" /\ r.err = "ok"
              THEN FlowStart(r.flow, ectx, perm, fails)
              ELSE [err |-> "ok", flow |-> r.flow, attempted |-> <<>>]
        base == [NoResult EXCEPT !.op = "deploy", !.id = id]
    IN IF ~saveOk
       THEN /\ fheap' = heap
            /\ res' = [base EXCEPT !.err = "SaveError"]
            /\ UNCHANGED <<storage, flows>>
       ELSE IF r.err # "ok"
       THEN /\ fheap' = heap
            /\ res' = [base EXCEPT !.err = r.err]
            /\ UNCHANGED <<storage, flows>>
       ELSE /\ fheap' = Append(heap, st.flow)
            /\ storage' = MapSet(storage, id, d)
            /\ flows' = MapSet(flows, id, Len(heap) + 1)
            /\ res' = [base EXCEPT !.err = st.err, !.ref = Len(heap) + 1,
                                   !.attempted = st.attempted]

\* DeployRest going on after a failed save.
DeployRest_IgnoreSaveError(id, d, saveOk, perm, fails, heap) ==
    LET r == NewFlow(id, d, registry)
        st == IF estatus = "running" /\ r.err = "ok"
              THEN FlowStart(r.flow, ectx, perm, fails)
              ELSE [err |-> "ok", flow |-> r.flow, attempted |-> <<>>]
        base == [NoResult EXCEPT !.op = "deploy", !.id = id]
    IN IF r.err # "ok"
       THEN /\ fheap' = heap
            /\ storage' = IF saveOk THEN MapSet(storage, id, d) ELSE storage
            /\ res' = [base EXCEPT !.err = r.err]
            /\ UNCHANGED flows
       ELSE /\ fheap' = Append(heap, st.flow)
            /\ storage' = IF saveOk THEN MapSet(storage, id, d) ELSE storage
            /\ flows' = MapSet(flows, id, Len(heap) + 1)
            /\ res' = [base EXCEPT !.err = st.err, !.ref = Len(heap) + 1,
                                   !.attempted = st.attempted]

\* Engine.DeployFlow(id, flowDef) after existingFlow.Stop() has returned, heap
\* being the Flow objects as they are then: SaveFlow, NewFlow, the table entry,
\* Flow.Start when the Engine is running, the return.  saveOk says whether
\* storage.SaveFlow succeeds; perm and fails are the inputs of the Flow.Start.
DeployRest(id, d, saveOk, perm, fails, heap) ==
    LET r == NewFlow(id, d, registry)
        st == IF estatus = "running" /\ r.err = "ok"
              THEN FlowStart(r.flow, ectx, perm, fails)
              ELSE [err |-> "ok", flow |-> r.flow, attempted |-> <<>>]
        base == [NoResult EXCEPT !.op = "deploy", !.id = id]
    IN IF ~saveOk
       THEN /\ fheap' = heap
            /\ res' = [base EXCEPT !.err = "SaveError"]
            /\ UNCHANGED <<storage, flows>>
       ELSE IF r.err # "ok"
       THEN /\ fheap' = heap
            /\ storage' = MapSet(storage, id, d)
            /\ res' = [base EXCEPT !.err = r.err]
            /\ UNCHANGED flows
       ELSE /\ fheap' = Append(heap, st.flow)
            /\ storage' = MapSet(storage, id, d)
            /\ flows' = MapSet(flows, id, Len(heap) + 1)
            /\ res' = [base EXCEPT !.err = st.err, !.ref = Len(heap) + 1,
                                   !.attempted = st.attempted]

\* Engine.DeployFlow(id, flowDef) from its Lock to its return, no other
\* goroutine touching the Flow in between.
DeployFlow(id, d, saveOk, perm, fails) ==
    DeployRest(id, d, saveOk, perm, fails, DeployStopped(id))

\* Engine.Initialize, the loop over the listed ids from position i on: a
\* definition that does not load or does not construct is skipped.
\* [err, flows, fheap, outcomes]; outcomes lists what happened to each id visited.
RECURSIVE InitFlows(_, _, _, _, _, _)
InitFlows(ids, i, loadFails, st, tbl, heap) ==
    IF i > Len(ids) THEN [err |-> "ok", flows |-> tbl, fheap |-> heap, outcomes |-> <<>>]
    ELSE IF ids[i] \in loadFails
         THEN LET rest == InitFlows(ids, i + 1, loadFails, st, tbl, heap)
              IN [rest EXCEPT !.outcomes = <<[id |-> ids[i], outcome |-> "LoadError"]>> \o @]
    ELSE LET r == NewFlow(ids[i], st[ids[i]], registry)
         IN IF r.err = "panic"
            THEN [err |-> "panic", flows |-> tbl, fheap |-> heap,
                  outcomes |-> <<[id |-> ids[i], outcome |-> "panic"]>>]
            ELSE IF r.err # "ok"
            THEN LET rest == InitFlows(ids, i + 1, loadFails, st, tbl, heap)
                 IN [rest EXCEPT !.outcomes = <<[id |-> ids[i], outcome |-> r.err]>> \o @]
            ELSE LET rest == InitFlows(ids, i + 1, loadFails, st,
                                       MapSet(tbl, ids[i], Len(heap) + 1), Append(heap, r.flow))
                 IN [rest EXCEPT !.outcomes = <<[id |-> ids[i], outcome |-> "ok"]>> \o @]

\* storage.ListFlows: the stored ids, in directory order.
ListFlows(st) == SelectSeq(<<"f1", "f2">>, LAMBDA id : IsMember(id, DOMAIN st))

\* Engine.Initialize(): listOk says whether storage.ListFlows succeeds, loadFails
\* is the set of ids whose storage.LoadFlow fails.
Initialize(listOk, loadFails) ==
    LET r == InitFlows(ListFlows(storage), 1, loadFails, storage, flows, fheap)
    IN IF ~listOk
       THEN /\ res' = [NoResult EXCEPT !.op = "initialize", !.err = "ListError"]
            /\ UNCHANGED <<flows, fheap>>
       ELSE /\ res' = [NoResult EXCEPT !.op = "initialize", !.err = r.err,
                                       !.outcomes = r.outcomes]
            /\ flows' = r.flows
            /\ fheap' = r.fheap

\* Engine.DeleteFlow(id), its first statements: the Flow the table holds under
\* id is stopped and its entry removed.
DeleteTable(id) ==
    IF id \in DOMAIN flows
    THEN /\ fheap' = SeqSet(fheap, flows[id], FlowStop(fheap[flows[id]]))
         /\ flows' = MapDel(flows, id)
    ELSE UNCHANGED <<fheap, flows>>

\* Engine.DeleteFlow(id), its return statement: delOk says whether the removal
\* of an existing file succeeds; the result is storage.DeleteFlow's.
\* res.attempted lists the ids storage.DeleteFlow was called with.
DeleteStore(id, delOk) ==
    /\ storage' = IF id \in DOMAIN storage /\ delOk THEN MapDel(storage, id) ELSE storage
    /\ res' = [NoResult EXCEPT !.op = "delete", !.id = id, !.attempted = <<id>>,
                               !.err = IF id \notin DOMAIN storage THEN "NotFound"
                                       ELSE IF ~delOk THEN "DeleteError" ELSE "ok"]

\* Engine.DeleteFlow(id) from its Lock to its return, no other goroutine
\* touching the Flow in between.
DeleteFlow(id, delOk) == DeleteTable(id) /\ DeleteStore(id, delOk)

-----------------------------------------------------------------------------
(* SpecConstruct: NewFlow, through DeployFlow on a fresh Engine, as a function *)
(* of the definition.                                                         *)

InitConstruct ==
    /\ msgs = <<>>
    /\ hdrs = <<>>
    /\ metas = <<>>
    /\ cells = <<>>
    /\ snap = <<>>
    /\ nmut = 0
    /\ NodeIdle
    /\ def \in Defs
    /\ EngineNew

ConstructStep ==
    /\ nops = 0
    /\ nops' = 1
    /\ DeployFlow("f1", def, TRUE, <<"A", "B">>, {})
    /\ UNCHANGED <<heapVars, nodeVars, def, registry, estatus, ectx, chainVars, auxVars>>

\* Flow.ToJSON of the Flow constructed, the maps ranged over in any order.
SerializeStep ==
    /\ "f1" \in DOMAIN flows
    /\ json = NoJSON
    /\ \E norder \in Perms(DOMAIN fheap[flows["f1"]].Nodes),
          worder \in Perms(DOMAIN fheap[flows["f1"]].Wires) :
           json' = ToJSON(fheap[flows["f1"]], norder, worder)
    /\ UNCHANGED <<heapVars, nodeVars, engineVars, chainVars, regVars, lockVars, handlerVars, elock>>

NextConstruct == ConstructStep \/ SerializeStep

SpecConstruct == InitConstruct /\ [][NextConstruct]_vars

\* The definition's node entries all name registered types.
AllTypesRegistered(d) == \A i \in DOMAIN d.Nodes : Registered(registry, d.Nodes[i].Type)

\* Position of the first node entry naming an unregistered type.
FirstUnknown(d) ==
    CHOOSE i \in DOMAIN d.Nodes :
        /\ ~Registered(registry, d.Nodes[i].Type)
        /\ \A j \in 1..(i - 1) : Registered(registry, d.Nodes[j].Type)

\* The behaviour of node entry i rejects its config.
ConfigRejected(d, i) ==
    /\ Registered(registry, d.Nodes[i].Type)
    /\ ~BehaviourInit(registry[d.Nodes[i].Type].Factory, d.Nodes[i].Config)

\* Every node entry is constructed: registered type, accepted config.
NodePhaseOk(d) ==
    /\ ~d.malformed
    /\ AllTypesRegistered(d)
    /\ \A i \in DOMAIN d.Nodes : ~ConfigRejected(d, i)

DefNodeIds(d) == {d.Nodes[i].ID : i \in DOMAIN d.Nodes}

\* Some wire entry names a source or a target that is no node id of the definition.
HasDanglingWire(d) ==
    \E i \in DOMAIN d.Wires :
        d.Wires[i].Source \notin DefNodeIds(d) \/ d.Wires[i].Target \notin DefNodeIds(d)

\* C7 (as claimed): construction from a definition naming an unregistered type
\* fails with UnknownNodeType and no Flow is returned or installed.
C7_UnknownTypeError ==
    (res.op = "deploy" /\ ~def.malformed /\ ~AllTypesRegistered(def))
        => (res.err = "UnknownNodeType" /\ res.ref = 0 /\ flows = <<>> /\ fheap = <<>>)

\* C8 (as claimed, for definitions whose nodes are all constructed): construction
\* from a definition with a wire whose source or target is no node of the
\* definition fails with DanglingWireReference and returns no Flow.
C8_DanglingWireFails ==
    (res.op = "deploy" /\ NodePhaseOk(def) /\ HasDanglingWire(def))
        => (res.err = "DanglingWireReference" /\ res.ref = 0)

\* The targets the definition wires to port p of source s, in definition order.
IsWireOf(w, s, p) == w.Source = s /\ w.Port = p
DefTargets(d, s, p) ==
    LET ws == SelectSeq(d.Wires, LAMBDA w : IsWireOf(w, s, p))
    IN [i \in DOMAIN ws |-> ws[i].Target]

\* The targets Flow f holds on port p of node s, as node ids.
FlowTargets(f, s, p) ==
    LET row == IF p + 1 \in DOMAIN f.Nodes[s].wires THEN f.Nodes[s].wires[p + 1] ELSE <<>>
    IN [i \in DOMAIN row |-> CHOOSE t \in DOMAIN f.Nodes : f.Nodes[t].instance = row[i]]

DefPorts(d) == {d.Wires[i].Port : i \in DOMAIN d.Wires}

\* Flow f mirrors definition d: same node ids, each with the type and name of
\* every entry of that id, and per source and port the same ordered targets.
Mirrors(f, d) ==
    /\ DOMAIN f.Nodes = DefNodeIds(d)
    /\ \A i \in DOMAIN d.Nodes :
           /\ f.Nodes[d.Nodes[i].ID].Type = d.Nodes[i].Type
           /\ f.Nodes[d.Nodes[i].ID].Name = d.Nodes[i].Name
    /\ \A s \in DefNodeIds(d) :
           /\ \A p \in DefPorts(d) : FlowTargets(f, s, p) = DefTargets(d, s, p)
           /\ \A p \in 0..(Len(f.Nodes[s].wires) - 1) : FlowTargets(f, s, p) = DefTargets(d, s, p)

\* C9 (as claimed, for definitions whose wire ports are not negative): for every
\* definition whose node types are registered, whose configs are accepted and
\* whose wires reference defined nodes, construction succeeds and the Flow
\* mirrors the definition, also when a node id is listed twice.
C9_ConstructMirrorsDefinition ==
    (/\ res.op = "deploy"
     /\ NodePhaseOk(def)
     /\ ~HasDanglingWire(def)
     /\ \A p \in DefPorts(def) : p >= 0)
        => /\ res.err = "ok"
           /\ res.ref # 0
           /\ Mirrors(fheap[res.ref], def)

-----------------------------------------------------------------------------
(* SpecEngine: an Engine on which flows are deployed, started and stopped.   *)
(* An Engine call holds Engine.mu from entry to return and a Flow's own lock *)
(* only inside Flow.Start and Flow.Stop: each call is its entry, a step for  *)
(* each Flow.Start or Flow.Stop of its range, and its return, and a handler's *)
(* Flow.Start or Flow.Stop on a pointer it got earlier runs in between.      *)

FlowIds == {"f1", "f2"}
MaxCtx == 2
MaxOps == 3
MaxRegCalls == 3
MaxLockCalls == 3
MaxReentry == 1

EngineDefs ==
    {[malformed |-> FALSE, ID |-> "", Name |-> "flow",
      Nodes |-> <<[ID |-> "A", Type |-> "echo", Name |-> "n1", Config |-> "ok"],
                  [ID |-> "B", Type |-> "echo", Name |-> "n1", Config |-> "ok"]>>,
      Wires |-> <<[Source |-> "A", Target |-> "B", Port |-> 0]>>],
     [malformed |-> FALSE, ID |-> "", Name |-> "flow",
      Nodes |-> <<[ID |-> "A", Type |-> "echo", Name |-> "n1", Config |-> "ok"]>>,
      Wires |-> <<>>],
     [malformed |-> FALSE, ID |-> "", Name |-> "flow",
      Nodes |-> <<[ID |-> "A", Type |-> "echo", Name |-> "n1", Config |-> "ok"],
                  [ID |-> "B", Type |-> "ghost", Name |-> "n1", Config |-> "ok"]>>,
      Wires |-> <<>>]}

\* A definition of two registered nodes joined by a wire on port -1, as a
\* DeployFlow of an earlier run leaves it in the store (SaveFlow precedes NewFlow).
NegativePortDef ==
    [malformed |-> FALSE, ID |-> "", Name |-> "flow",
     Nodes |-> <<[ID |-> "A", Type |-> "echo", Name |-> "n1", Config |-> "ok"],
                 [ID |-> "B", Type |-> "echo", Name |-> "n1", Config |-> "ok"]>>,
     Wires |-> <<[Source |-> "A", Target |-> "B", Port |-> -1]>>]

\* What the store may hold when the program starts.
StoredAtStart ==
    {<<>>,
     [id \in {"f1"} |-> CHOOSE d \in EngineDefs : Len(d.Nodes) = 2 /\ Len(d.Wires) = 1],
     [id \in {"f1", "f2"} |->
         IF id = "f2" THEN CHOOSE d \in EngineDefs : Len(d.Nodes) = 1
         ELSE CHOOSE d \in EngineDefs : ~(\A i \in DOMAIN d.Nodes : d.Nodes[i].Type \in DOMAIN BuiltinTypes)],
     [id \in {"f1", "f2"} |->
         IF id = "f2" THEN CHOOSE d \in EngineDefs : Len(d.Nodes) = 1
         ELSE NegativePortDef]}

InitEngine ==
    /\ msgs = <<>>
    /\ hdrs = <<>>
    /\ metas = <<>>
    /\ cells = <<>>
    /\ snap = <<>>
    /\ nmut = 0
    /\ NodeIdle
    /\ def = EmptyDef
    /\ \E st \in StoredAtStart : EngineNewOn(st)

\* main: Initialize is called once, on the new Engine, before anything else.
EngineInitialize ==
    /\ res.op = "none"
    /\ \E listOk \in BOOLEAN, loadFails \in SUBSET FlowIds : Initialize(listOk, loadFails)
    /\ UNCHANGED <<heapVars, nodeVars, def, registry, storage, estatus, ectx, nops, chainVars, auxVars>>

\* The program is past Initialize: main ends the process when Initialize returns
\* an error (log.Fatalf) or panics; a panic inside a later call is the caller's.
Serving == res.op # "none" /\ ~(res.op = "initialize" /\ res.err # "ok")

Installed == {flows[id] : id \in DOMAIN flows}

\* Engine.mu is free: no Engine call holds it for writing.
EngineIdle == ecall.op = "none"

\* Another call may be made: the bound on the calls, the one in progress counted.
CallBudget == nops + (IF EngineIdle THEN 0 ELSE 1) < MaxOps

\* What a step of an Engine call leaves alone.
EngineCallFrame ==
    UNCHANGED <<heapVars, nodeVars, chainVars, regVars, json, lockVars, held, healed, elock>>

\* The call has taken Engine.mu; it keeps the table and the Flows as it found them.
Entered(op, id, todo) ==
    ecall' = [op |-> op, id |-> id, todo |-> todo, flows |-> flows, fheap |-> fheap]

\* Engine.DeployFlow called with a definition of D: e.mu.Lock() and
\* existingFlow.Stop().  Flow.Stop holds the Flow's own lock from entry to
\* return; the Engine's lock alone is held afterwards.
DeployEnterFrom(D) ==
    \E id \in FlowIds, d \in D :
        /\ Serving
        /\ EngineIdle
        /\ CallBudget
        /\ Len(fheap) < MaxFlowObjects
        /\ Entered("deploy", id, <<>>)
        /\ fheap' = DeployStopped(id)
        /\ def' = d
        /\ UNCHANGED <<registry, storage, flows, estatus, ectx, res, nops>>
        /\ EngineCallFrame

DeployEnter == DeployEnterFrom(EngineDefs)

\* Engine.DeployFlow, the rest of the call and the return.
DeployReturn ==
    /\ ecall.op = "deploy"
    /\ \E saveOk \in BOOLEAN, perm \in Perms(NodeIds), fails \in SUBSET NodeIds :
         DeployRest(ecall.id, def, saveOk, perm, fails, fheap)
    /\ nops' = nops + 1
    /\ ecall' = NoEngineCall
    /\ UNCHANGED <<def, registry, estatus, ectx>>
    /\ EngineCallFrame

\* Engine.DeleteFlow called: e.mu.Lock(), flow.Stop() and the entry's removal.
DeleteEnter ==
    \E id \in FlowIds :
        /\ Serving
        /\ EngineIdle
        /\ CallBudget
        /\ Entered("delete", id, <<>>)
        /\ DeleteTable(id)
        /\ UNCHANGED <<def, registry, storage, estatus, ectx, res, nops>>
        /\ EngineCallFrame

\* Engine.DeleteFlow, its return statement.
DeleteReturn ==
    /\ ecall.op = "delete"
    /\ \E delOk \in BOOLEAN : DeleteStore(ecall.id, delOk)
    /\ nops' = nops + 1
    /\ ecall' = NoEngineCall
    /\ UNCHANGED <<def, registry, flows, fheap, estatus, ectx>>
    /\ EngineCallFrame

\* Server.handleStartFlow and Server.handleStopFlow obtain the Flow from
\* Engine.GetFlow, which releases the Engine's lock on return, and call Start or
\* Stop on the pointer afterwards: other calls of the Engine can come in
\* between, and Start or Stop can run while an Engine call holds Engine.mu.
HandlerFrame == UNCHANGED <<heapVars, nodeVars, chainVars, regVars, json, lockVars, healed, ecall, elock>>

\* Engine.GetFlow(id) in a handler: e.mu.RLock() and the pointer found in the table.
HandlerGet(id) ==
    /\ Serving
    /\ EngineIdle
    /\ id \in DOMAIN flows
    /\ held = NoHeld
    /\ held' = [id |-> id, ref |-> flows[id]]
    /\ UNCHANGED engineVars
    /\ HandlerFrame

HandlerGetFlow == \E id \in FlowIds : HandlerGet(id)

\* The handler's flow.Start(r.Context()) on the pointer it holds.
HandlerStart ==
    \E perm \in Perms(NodeIds), fails \in SUBSET NodeIds :
        LET r == FlowStart(fheap[held.ref], RequestCtx, perm, fails)
        IN /\ Serving
           /\ held # NoHeld
           /\ CallBudget
           /\ nops' = nops + 1
           /\ fheap' = SeqSet(fheap, held.ref, r.flow)
           /\ res' = [op |-> "flowstart", id |-> held.id, ref |-> held.ref, err |-> r.err,
                      was |-> fheap[held.ref].status, attempted |-> r.attempted,
                      outcomes |-> <<>>]
           /\ held' = NoHeld
           /\ UNCHANGED <<def, registry, storage, flows, estatus, ectx>>
           /\ HandlerFrame

\* The handler's flow.Stop() on the pointer it holds.
HandlerStop ==
    \E perm \in Perms(NodeIds) :
        /\ Serving
        /\ held # NoHeld
        /\ CallBudget
        /\ nops' = nops + 1
        /\ fheap' = SeqSet(fheap, held.ref, FlowStop(fheap[held.ref]))
        /\ res' = [op |-> "flowstop", id |-> held.id, ref |-> held.ref, err |-> "ok",
                   was |-> fheap[held.ref].status,
                   attempted |-> FlowStopVisits(fheap[held.ref], perm),
                   outcomes |-> <<>>]
        /\ held' = NoHeld
        /\ UNCHANGED <<def, registry, storage, flows, estatus, ectx>>
        /\ HandlerFrame

\* Engine.Start called: e.mu.Lock() and the status test.  On a running Engine
\* the error is returned; otherwise the range over the table begins, in an
\* order of its own.
EngineStartEnter ==
    /\ Serving
    /\ EngineIdle
    /\ CallBudget
    /\ IF estatus = "running"
       THEN /\ res' = [NoResult EXCEPT !.op = "enginestart", !.err = "AlreadyRunning",
                                       !.was = estatus]
            /\ nops' = nops + 1
            /\ UNCHANGED ecall
       ELSE /\ \E order \in Perms(Installed) : Entered("enginestart", "", order)
            /\ UNCHANGED <<res, nops>>
    /\ UNCHANGED <<def, registry, storage, flows, fheap, estatus, ectx>>
    /\ EngineCallFrame

\* Engine.Start, one turn of its range: flow.Start(e.ctx), a failure being
\* logged only.  The Flow ranges over its Nodes in an order of its own, and
\* each Node has its own behaviour, failing or not.
EngineStartFlow ==
    /\ ecall.op = "enginestart"
    /\ ecall.todo # <<>>
    /\ \E perm \in Perms(NodeIds), fails \in SUBSET NodeIds :
         fheap' = SeqSet(fheap, Head(ecall.todo),
                         FlowStart(fheap[Head(ecall.todo)], ectx, perm, fails).flow)
    /\ ecall' = [ecall EXCEPT !.todo = Tail(@)]
    /\ UNCHANGED <<def, registry, storage, flows, estatus, ectx, res, nops>>
    /\ EngineCallFrame

\* Engine.Start after the range: the status is set and nil returned.
EngineStartReturn ==
    /\ ecall.op = "enginestart"
    /\ ecall.todo = <<>>
    /\ estatus' = "running"
    /\ res' = [NoResult EXCEPT !.op = "enginestart", !.err = "ok", !.was = estatus]
    /\ nops' = nops + 1
    /\ ecall' = NoEngineCall
    /\ UNCHANGED <<def, registry, storage, flows, fheap, ectx>>
    /\ EngineCallFrame

\* Engine.Stop entered without the status test of engine.go:101-103.
EngineStopEnter_NoStatusCheck ==
    /\ Serving
    /\ EngineIdle
    /\ CallBudget
    /\ ectx < MaxCtx
    /\ ectx' = ectx + 1
    /\ \E order \in Perms(Installed) : Entered("enginestop", "", order)
    /\ UNCHANGED <<def, registry, storage, flows, fheap, estatus, res, nops>>
    /\ EngineCallFrame

\* Engine.Stop called: e.mu.Lock() and the status test.  On an Engine that is
\* not running the error is returned; otherwise the context is cancelled and
\* replaced and the range over the table begins.
EngineStopEnter ==
    /\ Serving
    /\ EngineIdle
    /\ CallBudget
    /\ estatus = "running" => ectx < MaxCtx
    /\ IF estatus # "running"
       THEN /\ res' = [NoResult EXCEPT !.op = "enginestop", !.err = "NotRunning",
                                       !.was = estatus]
            /\ nops' = nops + 1
            /\ UNCHANGED <<ecall, ectx>>
       ELSE /\ ectx' = ectx + 1
            /\ \E order \in Perms(Installed) : Entered("enginestop", "", order)
            /\ UNCHANGED <<res, nops>>
    /\ UNCHANGED <<def, registry, storage, flows, fheap, estatus>>
    /\ EngineCallFrame

\* Engine.Stop, one turn of its range: flow.Stop().
EngineStopFlow ==
    /\ ecall.op = "enginestop"
    /\ ecall.todo # <<>>
    /\ fheap' = SeqSet(fheap, Head(ecall.todo), FlowStop(fheap[Head(ecall.todo)]))
    /\ ecall' = [ecall EXCEPT !.todo = Tail(@)]
    /\ UNCHANGED <<def, registry, storage, flows, estatus, ectx, res, nops>>
    /\ EngineCallFrame

\* Engine.Stop after the range: the status is set and nil returned.
EngineStopReturn ==
    /\ ecall.op = "enginestop"
    /\ ecall.todo = <<>>
    /\ estatus' = "stopped"
    /\ res' = [NoResult EXCEPT !.op = "enginestop", !.err = "ok", !.was = estatus]
    /\ nops' = nops + 1
    /\ ecall' = NoEngineCall
    /\ UNCHANGED <<def, registry, storage, flows, fheap, ectx>>
    /\ EngineCallFrame

NextEngine ==
    \/ EngineInitialize
    \/ DeployEnter
    \/ DeployReturn
    \/ DeleteEnter
    \/ DeleteReturn
    \/ HandlerGetFlow
    \/ HandlerStart
    \/ HandlerStop
    \/ EngineStartEnter
    \/ EngineStartFlow
    \/ EngineStartReturn
    \/ EngineStopEnter
    \/ EngineStopFlow
    \/ EngineStopReturn

SpecEngine == InitEngine /\ [][NextEngine]_vars

\* C10 (as claimed): when Flow.Start on a stopped Flow meets a Node that fails to
\* start, the error is returned, the Nodes started before it stay running and
\* the Flow's status is running on return.
C10_FailedStartLeavesRunning ==
    (res.op = "flowstart" /\ res.was = "stopped" /\ res.err # "ok")
        => /\ \A i \in 1..(Len(res.attempted) - 1) :
                  fheap[res.ref].Nodes[res.attempted[i]].running
           /\ fheap[res.ref].status = "running"

\* C11 (as claimed): every Flow.Start call on a stopped Flow makes a start attempt
\* on every Node of the Flow, whichever Node fails and in whatever order the
\* Nodes are visited.
C11_SiblingsAllAttempted ==
    (res.op = "flowstart" /\ res.was = "stopped")
        => {res.attempted[i] : i \in DOMAIN res.attempted} = DOMAIN fheap[res.ref].Nodes

\* C12: Flow.Stop reports no error; on a Flow whose status is not running it
\* changes nothing and calls Stop on no Node; on a running Flow it leaves the
\* status stopped and every Node of the Flow not running.
C12_FlowStopNeverFails ==
    [][(res'.op = "flowstop" /\ nops' = nops + 1)
        => LET a == res'.ref
           IN /\ res'.err = "ok"
              /\ fheap[a].status # "running"
                    => (fheap' = fheap /\ res'.attempted = <<>>)
              /\ fheap[a].status = "running"
                    => /\ fheap'[a].status = "stopped"
                       /\ \A n \in DOMAIN fheap'[a].Nodes : ~fheap'[a].Nodes[n].running
                       /\ \A b \in DOMAIN fheap : b # a => fheap'[b] = fheap[b]]_vars

\* C12 witness: Flow.Stop has returned on a running Flow of two Nodes, having
\* called Stop on both; the Flow is stopped.
C12_Witness ==
    /\ res.op = "flowstop"
    /\ res.was = "running"
    /\ Len(res.attempted) = 2
    /\ fheap[res.ref].status = "stopped"

-----------------------------------------------------------------------------
(* SpecLifecycle: one Node, wired, then started and stopped any number of    *)
(* times by callers; every call's outcome and the calls the Node made on its *)
(* behaviour and on its cancel function are recorded.                        *)

InitLifecycle == InitNode

LifecycleStart ==
    /\ lc.n < MaxNodeCalls
    /\ \E ok \in BOOLEAN, ctx \in {RequestCtx, ectx} :
         LET r == NodeStart(node, ctx, ok)
         IN /\ node' = r.node
            /\ lc' = [n |-> lc.n + 1, op |-> "start", err |-> r.err, was |-> node.running,
                      invoked |-> lc.invoked + (IF r.invoked THEN 1 ELSE 0),
                      starts |-> lc.starts + (IF r.err = "ok" THEN 1 ELSE 0),
                      stops |-> lc.stops,
                      cancels |-> lc.cancels + (IF r.cancelled THEN 1 ELSE 0)]
            /\ hist' = CASE r.err = "ok" -> "started"
                         [] r.err = "StartError" -> "startFailed"
                         [] OTHER -> hist
    /\ UNCHANGED <<heapVars, engineVars, pc, sPort, sMsg, sIdx, sResult, sRunning, log, chainVars, auxVars>>

LifecycleStop ==
    /\ lc.n < MaxNodeCalls
    /\ LET r == NodeStop(node)
       IN /\ node' = r.node
          /\ lc' = [n |-> lc.n + 1, op |-> "stop", err |-> "ok", was |-> node.running,
                    invoked |-> lc.invoked,
                    starts |-> lc.starts,
                    stops |-> lc.stops + (IF r.stopped THEN 1 ELSE 0),
                    cancels |-> lc.cancels + (IF r.cancelled THEN 1 ELSE 0)]
          /\ hist' = IF r.stopped THEN "stopped" ELSE hist
    /\ UNCHANGED <<heapVars, engineVars, pc, sPort, sMsg, sIdx, sResult, sRunning, log, chainVars, auxVars>>

NextLifecycle ==
    \/ NodeAddWire
    \/ LifecycleStart
    \/ LifecycleStop

SpecLifecycle == InitLifecycle /\ [][NextLifecycle]_vars

\* C13: a Stop on a Node that is not running (never started, start failed, or
\* already stopped) calls neither the behaviour's Stop nor the cancel function
\* and leaves the Node as it was; the behaviour's Stop has been called once for
\* every successful Start but the one the Node is running on.
C13_StopIdempotent ==
    /\ [][(lc'.n = lc.n + 1 /\ lc'.op = "stop" /\ ~node.running)
            => /\ node' = node
               /\ lc'.err = "ok"
               /\ lc'.stops = lc.stops
               /\ lc'.cancels = lc.cancels]_vars
    /\ [](lc.stops = lc.starts - (IF node.running THEN 1 ELSE 0))

\* C13 witness: the Node was started, stopped, and stopped again.
C13_Witness ==
    /\ lc.n = 3
    /\ lc.op = "stop"
    /\ ~lc.was
    /\ lc.starts = 1
    /\ lc.stops = 1
    /\ hist = "stopped"

\* C14: a Start on a stopped Node whose behaviour's Start fails returns that
\* error, cancels the context it derived and leaves the Node not running, so a
\* later Start is accepted; a Start on a running Node fails with AlreadyRunning,
\* does not call the behaviour's Start and leaves the Node, its context included,
\* as it was.
C14_StartFailureAndAlreadyRunning ==
    [][(lc'.n = lc.n + 1 /\ lc'.op = "start")
        => /\ node.running
                => /\ lc'.err = "AlreadyRunning"
                   /\ lc'.invoked = lc.invoked
                   /\ lc'.cancels = lc.cancels
                   /\ node' = node
           /\ (~node.running /\ lc'.err # "ok")
                => /\ lc'.err = "StartError"
                   /\ lc'.invoked = lc.invoked + 1
                   /\ lc'.cancels = lc.cancels + 1
                   /\ node'.scope = "cancelled"
                   /\ ~node'.running
                   /\ NodeStart(node', RequestCtx, TRUE).err = "ok"]_vars

\* C14 witness: the first Start failed in the behaviour, the second was accepted.
C14_Witness ==
    /\ lc.n = 2
    /\ lc.op = "start"
    /\ lc.err = "ok"
    /\ lc.invoked = 2
    /\ lc.cancels = 1
    /\ node.running

\* The errors NewFlow returns.
ConstructionErrors ==
    {"UnmarshalError", "UnknownNodeType", "NodeConstructionError", "DanglingWireReference"}

\* The step is a DeployFlow call.
DeployCall == res'.op = "deploy" /\ nops' = nops + 1

\* Since the DeployFlow call in progress stopped the Flow it found, no other
\* goroutine has changed a Flow.
DeployUndisturbed ==
    fheap = (IF ecall.id \in DOMAIN ecall.flows
             THEN SeqSet(ecall.fheap, ecall.flows[ecall.id],
                         FlowStop(ecall.fheap[ecall.flows[ecall.id]]))
             ELSE ecall.fheap)

\* C15 (as claimed): when the save fails DeployFlow returns an error and the Flow
\* held under id is the same object with the same status and the same running
\* flags on its Nodes as before the call, no handler having touched it meanwhile.
C15_SaveFailureLeavesOldFlow ==
    [][(DeployCall /\ res'.err = "SaveError" /\ DeployUndisturbed)
        => /\ flows' = ecall.flows
           /\ res'.id \in DOMAIN ecall.flows
                 => fheap'[ecall.flows[res'.id]] = ecall.fheap[ecall.flows[res'.id]]]_vars

\* C16: when the save succeeds and construction fails, DeployFlow returns the
\* construction error, the store holds the new definition under id, and the
\* table is as before the call: no Flow object is added.
C16_ConstructionFailureAfterSave ==
    [][(DeployCall /\ res'.err \in ConstructionErrors)
        => /\ res'.id \in DOMAIN storage'
           /\ storage'[res'.id] = def'
           /\ flows' = ecall.flows
           /\ Len(fheap') = Len(ecall.fheap)
           /\ res'.ref = 0]_vars

\* C16 witness: a deploy under the id of an installed Flow has failed with
\* UnknownNodeType; the store holds its definition, the table the earlier Flow.
C16_Witness ==
    /\ res.op = "deploy"
    /\ res.err = "UnknownNodeType"
    /\ res.id \in DOMAIN flows
    /\ storage[res.id] = def
    /\ fheap[flows[res.id]].Nodes # <<>>

\* C17 (as claimed): a deploy that fails with a construction error leaves the
\* definition stored under id before the call in place.
C17_FailedDeployKeepsStored ==
    [][(DeployCall /\ res'.err \in ConstructionErrors /\ res'.id \in DOMAIN storage)
        => (res'.id \in DOMAIN storage' /\ storage'[res'.id] = storage[res'.id])]_vars

\* C18: every id of the Engine's table has a definition in the store, after
\* Initialize and any deploy and delete calls; a deploy that puts a Flow in the
\* table has stored its definition.
C18_TableWithinStore ==
    /\ [](DOMAIN flows \subseteq DOMAIN storage)
    /\ [][(DeployCall /\ flows' # flows)
            => (res'.id \in DOMAIN storage' /\ storage'[res'.id] = def')]_vars

\* C18 witness: a deploy made after another call has installed a Flow; the table
\* holds it under the id and the store holds its definition.
C18_Witness ==
    /\ res.op = "deploy"
    /\ res.err = "ok"
    /\ EngineIdle
    /\ res.id \in DOMAIN flows
    /\ res.ref = flows[res.id]
    /\ storage[res.id] = def
    /\ nops >= 2

\* C19 (as claimed): when deploy(id, defA) has installed a Flow and is followed by
\* a successful deploy(id, defB), the Flow built from defA is stopped with none
\* of its Nodes running, the table holds a different Flow object that mirrors
\* defB, and that Flow is running when the Engine is running, stopped when not.
C19_RedeployReplaces ==
    [][(/\ res.op = "deploy" /\ res.ref # 0
        /\ DeployCall /\ res'.id = res.id /\ res'.err = "ok")
        => /\ fheap'[res.ref].status = "stopped"
           /\ \A n \in DOMAIN fheap'[res.ref].Nodes : ~fheap'[res.ref].Nodes[n].running
           /\ flows'[res.id] # res.ref
           /\ Mirrors(fheap'[flows'[res.id]], def')
           /\ fheap'[flows'[res.id]].status = IF estatus = "running" THEN "running" ELSE "stopped"]_vars

-----------------------------------------------------------------------------
(* SpecChain: a running Flow A -> B -> C on which a delivery chain runs while *)
(* DeployFlow replaces the Flow.  Each behaviour forwards what it receives    *)
(* with Send(msg, 0).  Send holds its Node's read lock until it returns;      *)
(* Node.Stop takes the write lock, so it waits for the Sends on that Node.    *)

ChainIds == {"A", "B", "C"}

ChainDef ==
    [malformed |-> FALSE, ID |-> "", Name |-> "chain",
     Nodes |-> <<[ID |-> "A", Type |-> "echo", Name |-> "n1", Config |-> "ok"],
                 [ID |-> "B", Type |-> "echo", Name |-> "n1", Config |-> "ok"],
                 [ID |-> "C", Type |-> "echo", Name |-> "n1", Config |-> "ok"]>>,
     Wires |-> <<[Source |-> "A", Target |-> "B", Port |-> 0],
                 [Source |-> "B", Target |-> "C", Port |-> 0]>>]

\* The Flow the chain runs on: the first Flow object made.
OldFlow == fheap[1]

\* The Engine after New, Initialize and Start over a store holding ChainDef.
InitChain ==
    /\ msgs = <<>>
    /\ hdrs = <<>>
    /\ metas = <<>>
    /\ cells = <<>>
    /\ snap = <<>>
    /\ nmut = 0
    /\ NodeIdle
    /\ def = ChainDef
    /\ registry = BuiltinTypes
    /\ storage = [id \in {"f1"} |-> ChainDef]
    /\ flows = [id \in {"f1"} |-> 1]
    /\ fheap = <<FlowStart(NewFlow("f1", ChainDef, BuiltinTypes).flow, 1, <<"A", "B", "C">>, {}).flow>>
    /\ estatus = "running"
    /\ ectx = 1
    /\ res = NoResult
    /\ nops = 0

InStack(n) == \E i \in DOMAIN chain.stack : chain.stack[i] = n

\* A's behaviour calls Send(msg, 0) on its Node with a message it has made:
\* the chain's first Send.
ChainBegin ==
    /\ chain.state = "idle"
    /\ msgs = <<>>
    /\ \E shape \in SendShapes :
         LET h == NewMessage(shape)
         IN /\ msgs' = h.msgs
            /\ hdrs' = h.hdrs
            /\ metas' = h.metas
            /\ cells' = h.cells
            /\ snap' = <<View(1, h.msgs, h.hdrs, h.metas, h.cells)>>
    /\ LET e == SendEntry(OldFlow.Nodes["A"], 0)
       IN chain' = IF e = "loop"
                   THEN [chain EXCEPT !.state = "active", !.stack = <<"A">>]
                   ELSE [chain EXCEPT !.state = "done", !.err = IF e = "ok" THEN "" ELSE e]
    /\ UNCHANGED <<nmut, nodeVars, engineVars, dep, auxVars>>

\* The Send on top of the stack clones its message and calls OnMessage on its
\* target with the copy.  The Send holds its own Node's read lock, not the
\* target's.
ChainDeliver ==
    /\ chain.state = "active"
    /\ LET h == Clone(Len(msgs), msgs, hdrs, metas, cells)
       IN /\ msgs' = h.msgs
          /\ hdrs' = h.hdrs
          /\ metas' = h.metas
          /\ cells' = h.cells
          /\ snap' = Append(snap, View(h.addr, h.msgs, h.hdrs, h.metas, h.cells))
    /\ LET n == chain.stack[Len(chain.stack)]
           t == FlowTargets(OldFlow, n, 0)[1]
       IN chain' = [chain EXCEPT !.recv = Append(@, t), !.pend = t, !.state = "received"]
    /\ UNCHANGED <<nmut, nodeVars, engineVars, dep, auxVars>>

\* The behaviour that received the copy calls Send(msg, 0) on its own Node:
\* the Node's read lock is taken and the running flag tested.  A Send that
\* fails, or that finds no target, returns at once, and so does OnMessage.
ChainForward ==
    /\ chain.state = "received"
    /\ LET t == chain.pend
           e == SendEntry(OldFlow.Nodes[t], 0)
       IN chain' = CASE e = "loop" -> [chain EXCEPT !.pend = "", !.state = "active",
                                                     !.stack = Append(@, t)]
                     [] e = "ok" -> [chain EXCEPT !.pend = "", !.state = "unwind"]
                     [] OTHER -> [chain EXCEPT !.pend = "", !.state = "unwind", !.err = e]
    /\ UNCHANGED <<heapVars, nodeVars, engineVars, dep, auxVars>>

\* The Send on top of the stack returns and releases its Node's read lock.
ChainReturn ==
    /\ chain.state = "unwind"
    /\ chain' = [chain EXCEPT !.stack = SubSeq(@, 1, Len(@) - 1),
                              !.state = IF Len(chain.stack) = 1 THEN "done" ELSE @]
    /\ UNCHANGED <<heapVars, nodeVars, engineVars, dep, auxVars>>

\* DeployFlow("f1", d): the Engine's lock is taken and the existing Flow's Stop
\* begins its range over the Nodes.
DeployBegin ==
    /\ dep.pc = "idle"
    /\ \E d \in EngineDefs, perm \in Perms(ChainIds) :
         dep' = [pc |-> "stopping", d |-> d, order |-> OrderOf(DOMAIN OldFlow.Nodes, perm), i |-> 1]
    /\ UNCHANGED <<heapVars, nodeVars, engineVars, chain, auxVars>>

\* Flow.Stop calls Stop on the next Node, once no Send holds that Node's lock.
DeployStopNode ==
    /\ dep.pc = "stopping"
    /\ dep.i <= Len(dep.order)
    /\ ~InStack(dep.order[dep.i])
    /\ fheap' = [fheap EXCEPT ![1].Nodes[dep.order[dep.i]] = NodeStop(@).node]
    /\ dep' = [dep EXCEPT !.i = @ + 1]
    /\ UNCHANGED <<heapVars, nodeVars, def, registry, storage, flows, estatus, ectx, res, nops, chain, auxVars>>

\* Flow.Stop marks the Flow stopped; DeployFlow saves, builds, installs and starts
\* the new Flow and returns.
DeployEnd ==
    /\ dep.pc = "stopping"
    /\ dep.i > Len(dep.order)
    /\ \E saveOk \in BOOLEAN, perm \in Perms(NodeIds), fails \in SUBSET NodeIds :
         DeployFlow("f1", dep.d, saveOk, perm, fails)
    /\ dep' = [dep EXCEPT !.pc = "done"]
    /\ UNCHANGED <<heapVars, nodeVars, def, registry, estatus, ectx, nops, chain, auxVars>>

\* After DeployFlow has returned, a behaviour of the replaced Flow calls Send.
LateSend ==
    /\ dep.pc = "done"
    /\ chain.state \in {"idle", "done"}
    /\ \E n \in ChainIds :
         chain' = [chain EXCEPT !.late = @ \cup {[node |-> n, result |-> SendEntry(OldFlow.Nodes[n], 0)]}]
    /\ UNCHANGED <<heapVars, nodeVars, engineVars, dep, auxVars>>

NextChain ==
    \/ ChainBegin
    \/ ChainDeliver
    \/ ChainForward
    \/ ChainReturn
    \/ DeployBegin
    \/ DeployStopNode
    \/ DeployEnd
    \/ LateSend

SpecChain == InitChain /\ [][NextChain]_vars

\* C20 (as claimed): a delivery chain whose first Send found its Node running
\* completes unaffected by a deploy that replaces its Flow meanwhile: every hop
\* is delivered (B and C receive) and no hop fails; and once DeployFlow has
\* returned, every new Send on a Node of the replaced Flow fails.
C20_ChainSurvivesRedeploy ==
    /\ (chain.state = "done" /\ chain.recv # <<>>)
          => (chain.err = "" /\ chain.recv = <<"B", "C">>)
    /\ \A l \in chain.late : l.result = "NotRunning"

-----------------------------------------------------------------------------
(* Registry: callers of RegisterNodeType, GetNodeType, UnregisterNodeType and
   GetAllNodeTypes under the Registry's reader/writer lock, next to a Flow
   built before *)

\* The descriptors callers register: two for each name, differing in factory.
RegDescs ==
    {[Name |-> "echo", Category |-> "test", Factory |-> "echo"],
     [Name |-> "echo", Category |-> "test", Factory |-> "echo2"],
     [Name |-> "debug", Category |-> "test", Factory |-> "debug"],
     [Name |-> "debug", Category |-> "test", Factory |-> "debug2"]}
RegNames == {"echo", "debug"}

\* A call's argument when it is a name.
NameArg(name) == [Name |-> name, Category |-> "", Factory |-> ""]

\* sync.RWMutex.Lock returns when no caller holds the lock in either mode.
CanLock_Unguarded(l) == TRUE
CanLock_IgnoreReaders(l) == l.writer = 0
CanLock(l) == l.writer = 0 /\ l.readers = {}
\* sync.RWMutex.RLock returns when no caller holds the write lock.
CanRLock(l) == l.writer = 0

\* Calls begun and not yet returned.
RegInProgress == {p \in RegProcs : rcall[p].pc \notin {"idle", "done"}}
RegBudget ==
    Len(rlog) + Cardinality(RegInProgress) + (IF building.i = 0 THEN 0 ELSE 1)
        + (IF fcall.op = "none" THEN 0 ELSE 1) < MaxRegCalls

\* The Flow built before the callers run, and the one-wire definition it was built from.
RegDef == CHOOSE d \in EngineDefs : Len(d.Nodes) = 2 /\ Len(d.Wires) = 1
RegOnlyEcho == [t \in {"echo"} |-> BuiltinTypes[t]]

\* The Engine after New and, with or without Engine.Start, a DeployFlow of
\* RegDef under "f1" that returned nil: the definition is stored, the Flow is
\* in the table, stopped on a stopped Engine and started on a running one.
InitRegistry ==
    /\ msgs = <<>>
    /\ hdrs = <<>>
    /\ metas = <<>>
    /\ cells = <<>>
    /\ snap = <<>>
    /\ nmut = 0
    /\ NodeIdle
    /\ def = RegDef
    /\ registry = RegOnlyEcho
    /\ storage = [id \in {"f1"} |-> RegDef]
    /\ flows = [id \in {"f1"} |-> 1]
    /\ estatus \in {"stopped", "running"}
    /\ ectx = 1
    /\ \E perm \in Perms(NodeIds) :
         LET built == NewFlow("f1", RegDef, RegOnlyEcho).flow
             st == IF estatus = "running"
                   THEN FlowStart(built, ectx, perm, {})
                   ELSE [err |-> "ok", flow |-> built, attempted |-> <<>>]
         IN /\ fheap = <<st.flow>>
            /\ res = [NoResult EXCEPT !.op = "deploy", !.id = "f1", !.ref = 1, !.err = "ok",
                                      !.attempted = st.attempted]
    /\ nops = IF estatus = "running" THEN 2 ELSE 1

FlowCallFrame == UNCHANGED <<heapVars, nodeVars, def, storage, flows, estatus, ectx, nops, chainVars, lockVars, handlerVars, elock>>
BuildFrame == UNCHANGED fcall /\ FlowCallFrame
RegFrame == UNCHANGED building /\ BuildFrame

\* A call by p returns: its record is completed and the call is logged.
Returned(p, err, ret) ==
    /\ rcall' = [rcall EXCEPT ![p].pc = "done", ![p].err = err, ![p].ret = ret]
    /\ rlog' = Append(rlog, [p |-> p, op |-> rcall[p].op, name |-> rcall[p].arg.Name, err |-> err])

\* RegisterNodeType / UnregisterNodeType: r.mu.Lock().
WriterBegin(p, op, arg) ==
    /\ rcall[p].pc \in {"idle", "done"}
    /\ RegBudget
    /\ CanLock(rlock)
    /\ rlock' = [rlock EXCEPT !.writer = p]
    /\ rcall' = [rcall EXCEPT ![p] = [NoRegCall EXCEPT !.op = op, !.arg = arg, !.pc = "locked"]]
    /\ UNCHANGED <<registry, fheap, res, rlog, json>>
    /\ RegFrame

RegisterBegin == \E p \in RegProcs, desc \in RegDescs : WriterBegin(p, "register", desc)
UnregisterBegin == \E p \in RegProcs, name \in RegNames : WriterBegin(p, "unregister", NameArg(name))

\* The lookup `_, exists := r.nodeTypes[name]` of either call.
WriterCheck ==
    \E p \in RegProcs :
        /\ rcall[p].pc = "locked"
        /\ rcall[p].op \in {"register", "unregister"}
        /\ rcall' = [rcall EXCEPT ![p].pc = "checked",
                                  ![p].found = rcall[p].arg.Name \in DOMAIN registry]
        /\ UNCHANGED <<registry, fheap, res, rlock, rlog, json>>
        /\ RegFrame

\* RegisterNodeType after the lookup: the error, or the assignment; the
\* deferred Unlock.
RegisterFinish ==
    \E p \in RegProcs :
        /\ rcall[p].pc = "checked"
        /\ rcall[p].op = "register"
        /\ IF rcall[p].found
           THEN Returned(p, "DuplicateType", <<>>) /\ UNCHANGED registry
           ELSE /\ Returned(p, "ok", <<>>)
                /\ registry' = MapSet(registry, rcall[p].arg.Name, rcall[p].arg)
        /\ rlock' = [rlock EXCEPT !.writer = 0]
        /\ UNCHANGED <<fheap, res, json>>
        /\ RegFrame

\* UnregisterNodeType with every entry dropped from the map.
UnregisterFinish_DropAll ==
    \E p \in RegProcs :
        /\ rcall[p].pc = "checked"
        /\ rcall[p].op = "unregister"
        /\ IF ~rcall[p].found
           THEN Returned(p, "UnknownType", <<>>) /\ UNCHANGED registry
           ELSE Returned(p, "ok", <<>>) /\ registry' = <<>>
        /\ rlock' = [rlock EXCEPT !.writer = 0]
        /\ UNCHANGED <<fheap, res, json>>
        /\ RegFrame

\* UnregisterNodeType after the lookup: the error, or the delete; the deferred
\* Unlock.
UnregisterFinish ==
    \E p \in RegProcs :
        /\ rcall[p].pc = "checked"
        /\ rcall[p].op = "unregister"
        /\ IF ~rcall[p].found
           THEN Returned(p, "UnknownType", <<>>) /\ UNCHANGED registry
           ELSE /\ Returned(p, "ok", <<>>)
                /\ registry' = MapDel(registry, rcall[p].arg.Name)
        /\ rlock' = [rlock EXCEPT !.writer = 0]
        /\ UNCHANGED <<fheap, res, json>>
        /\ RegFrame

\* GetNodeType(name): the read lock, the lookup, the descriptor or the error.
GetNodeType ==
    \E p \in RegProcs, name \in RegNames :
        /\ rcall[p].pc \in {"idle", "done"}
        /\ RegBudget
        /\ CanRLock(rlock)
        /\ rcall' = [rcall EXCEPT ![p] =
                        [NoRegCall EXCEPT !.op = "get", !.arg = NameArg(name), !.pc = "done",
                                          !.found = name \in DOMAIN registry,
                                          !.err = IF name \in DOMAIN registry THEN "ok" ELSE "UnknownType",
                                          !.ret = IF name \in DOMAIN registry
                                                  THEN <<registry[name]>> ELSE <<>>]]
        /\ rlog' = Append(rlog, [p |-> p, op |-> "get", name |-> name,
                                 err |-> IF name \in DOMAIN registry THEN "ok" ELSE "UnknownType"])
        /\ UNCHANGED <<registry, fheap, res, rlock, json>>
        /\ RegFrame

\* GetAllNodeTypes: r.mu.RLock() and the empty slice.
ListBegin ==
    \E p \in RegProcs :
        /\ rcall[p].pc \in {"idle", "done"}
        /\ RegBudget
        /\ CanRLock(rlock)
        /\ rlock' = [rlock EXCEPT !.readers = @ \cup {p}]
        /\ rcall' = [rcall EXCEPT ![p] = [NoRegCall EXCEPT !.op = "list", !.pc = "ranging"]]
        /\ UNCHANGED <<registry, fheap, res, rlog, json>>
        /\ RegFrame

\* The names whose descriptor the range of p's call has appended.
Visited(p) == {rcall[p].acc[i].Name : i \in DOMAIN rcall[p].acc}

\* GetAllNodeTypes, one turn of the range over r.nodeTypes: an entry not yet
\* visited, in no fixed order.
ListStep ==
    \E p \in RegProcs, name \in DOMAIN registry :
        /\ rcall[p].pc = "ranging"
        /\ name \notin Visited(p)
        /\ rcall' = [rcall EXCEPT ![p].acc = Append(@, registry[name])]
        /\ UNCHANGED <<registry, fheap, res, rlock, rlog, json>>
        /\ RegFrame

\* GetAllNodeTypes, the end of the range: the slice is returned, the deferred RUnlock.
ListFinish ==
    \E p \in RegProcs :
        /\ rcall[p].pc = "ranging"
        /\ DOMAIN registry \subseteq Visited(p)
        /\ Returned(p, "ok", rcall[p].acc)
        /\ rlock' = [rlock EXCEPT !.readers = @ \ {p}]
        /\ UNCHANGED <<registry, fheap, res, json>>
        /\ RegFrame

\* A call on the Flow built before, or a construction, made between Registry
\* calls: logged like them, with caller 0.
FlowLogged(op, err) ==
    /\ RegBudget
    /\ rlog' = Append(rlog, [p |-> 0, op |-> op, name |-> "", err |-> err])

\* Flow.Start or Flow.Stop returns: the call is logged with caller 0.
FlowReturned(op, err, attempted) ==
    /\ rlog' = Append(rlog, [p |-> 0, op |-> op, name |-> "", err |-> err])
    /\ res' = [NoResult EXCEPT !.op = op, !.id = "f1", !.ref = 1, !.err = err,
                               !.was = IF fcall.op = "none" THEN fheap[1].status
                                       ELSE fcall.found.status,
                               !.attempted = attempted]

\* Flow.Start of the Flow built before, entered: f.mu.Lock() and the status
\* test.  On a running Flow the error is returned; otherwise the range over
\* the Nodes begins, in an order of its own.  The Flow's lock is held to the
\* return, so no other Flow.Start, Flow.Stop or ToJSON runs meanwhile; a
\* Node's lock is held inside its Start only, so Sends run between the Nodes.
RegistryFlowStartEnter ==
    /\ fcall.op = "none"
    /\ RegBudget
    /\ IF fheap[1].status = "running"
       THEN /\ FlowReturned("flowstart", "AlreadyRunning", <<>>)
            /\ UNCHANGED fcall
       ELSE /\ \E perm \in Perms(NodeIds) :
                 fcall' = [op |-> "start", order |-> OrderOf(DOMAIN fheap[1].Nodes, perm),
                           i |-> 1, found |-> fheap[1]]
            /\ UNCHANGED <<rlog, res>>
    /\ UNCHANGED <<registry, fheap, rlock, rcall, json, building>>
    /\ FlowCallFrame

\* Flow.Start, one turn of its range: node.Start(ctx), the behaviour's Start
\* failing or not; the first error ends the call, the status left as it was.
RegistryFlowStartNode ==
    /\ fcall.op = "start"
    /\ fcall.i <= Len(fcall.order)
    /\ \E ok \in BOOLEAN :
         LET n == fcall.order[fcall.i]
             r == NodeStart(fheap[1].Nodes[n], RequestCtx, ok)
         IN /\ fheap' = [fheap EXCEPT ![1].Nodes[n] = r.node]
            /\ IF r.err = "ok"
               THEN /\ fcall' = [fcall EXCEPT !.i = @ + 1]
                    /\ UNCHANGED <<rlog, res>>
               ELSE /\ fcall' = NoFlowCall
                    /\ FlowReturned("flowstart", r.err, SubSeq(fcall.order, 1, fcall.i))
    /\ UNCHANGED <<registry, rlock, rcall, json, building>>
    /\ FlowCallFrame

\* Flow.Start after the range: the status is set and nil returned.
RegistryFlowStartReturn ==
    /\ fcall.op = "start"
    /\ fcall.i > Len(fcall.order)
    /\ fheap' = [fheap EXCEPT ![1].status = "running"]
    /\ fcall' = NoFlowCall
    /\ FlowReturned("flowstart", "ok", fcall.order)
    /\ UNCHANGED <<registry, rlock, rcall, json, building>>
    /\ FlowCallFrame

\* Flow.Stop of the Flow built before, entered: f.mu.Lock() and the status
\* test.  On a Flow that is not running the call returns; otherwise the range
\* over the Nodes begins, in an order of its own.
RegistryFlowStopEnter ==
    /\ fcall.op = "none"
    /\ RegBudget
    /\ IF fheap[1].status # "running"
       THEN /\ FlowReturned("flowstop", "ok", <<>>)
            /\ UNCHANGED fcall
       ELSE /\ \E perm \in Perms(NodeIds) :
                 fcall' = [op |-> "stop", order |-> OrderOf(DOMAIN fheap[1].Nodes, perm),
                           i |-> 1, found |-> fheap[1]]
            /\ UNCHANGED <<rlog, res>>
    /\ UNCHANGED <<registry, fheap, rlock, rcall, json, building>>
    /\ FlowCallFrame

\* Flow.Stop, one turn of its range: node.Stop().
RegistryFlowStopNode ==
    /\ fcall.op = "stop"
    /\ fcall.i <= Len(fcall.order)
    /\ fheap' = [fheap EXCEPT ![1].Nodes[fcall.order[fcall.i]] = NodeStop(@).node]
    /\ fcall' = [fcall EXCEPT !.i = @ + 1]
    /\ UNCHANGED <<registry, res, rlock, rcall, rlog, json, building>>
    /\ FlowCallFrame

\* Flow.Stop after the range: the status is set and the call returns.
RegistryFlowStopReturn ==
    /\ fcall.op = "stop"
    /\ fcall.i > Len(fcall.order)
    /\ fheap' = [fheap EXCEPT ![1].status = "stopped"]
    /\ fcall' = NoFlowCall
    /\ FlowReturned("flowstop", "ok", fcall.order)
    /\ UNCHANGED <<registry, rlock, rcall, json, building>>
    /\ FlowCallFrame

\* The messages sent through the Flow built before: a string payload, and a
\* map payload that Clone copies deeply.
RegShapes == {sh \in SendShapes : sh.p \in {"str", "map"}}

\* The heaps after the message at address 1 was cloned k times.
RECURSIVE SendCopies(_, _)
SendCopies(k, h) ==
    IF k = 0 THEN h
    ELSE LET c == SendCopies(k - 1, h)
         IN Clone(1, c.msgs, c.hdrs, c.metas, c.cells)

\* Node.Send(msg, 0) on a Node of the Flow built before, with a message just
\* made: the running test, then a copy for each target of port 0 in the order
\* of the wires and the target behaviour's OnMessage, up to the first that
\* returns an error (failAt; 0 when none does).  Send holds its Node's read
\* lock throughout and reads nothing of the Registry or of the target Node.
RegistrySend ==
    \E s \in NodeIds, shape \in RegShapes :
        LET e == SendEntry(fheap[1].Nodes[s], 0)
            targets == IF e = "loop" THEN FlowTargets(fheap[1], s, 0) ELSE <<>>
        IN \E failAt \in 0..Len(targets) :
             LET called == IF failAt = 0 THEN targets ELSE SubSeq(targets, 1, failAt)
                 err == IF e # "loop" THEN e
                        ELSE IF failAt = 0 THEN "ok" ELSE AfterReceive(FALSE, failAt).result
                 h == SendCopies(Len(called), NewMessage(shape))
             IN /\ FlowLogged("send", err)
                /\ msgs' = h.msgs
                /\ hdrs' = h.hdrs
                /\ metas' = h.metas
                /\ cells' = h.cells
                /\ snap' = [a \in DOMAIN h.msgs |-> View(a, h.msgs, h.hdrs, h.metas, h.cells)]
                /\ nmut' = 0
                /\ res' = [NoResult EXCEPT !.op = "send", !.id = s, !.ref = 1, !.err = err,
                                           !.attempted = called]
                /\ UNCHANGED <<registry, fheap, rlock, rcall, json, building, fcall>>
                /\ UNCHANGED <<nodeVars, def, storage, flows, estatus, ectx, nops, chainVars,
                               lockVars, handlerVars, elock>>

\* Flow.ToJSON of the Flow built before: f.mu.RLock(), which waits for a
\* Flow.Start or Flow.Stop under way.
RegistrySerialize ==
    \E norder \in Perms(DOMAIN fheap[1].Nodes), worder \in Perms(DOMAIN fheap[1].Wires) :
        /\ fcall.op = "none"
        /\ FlowLogged("tojson", "ok")
        /\ json' = ToJSON(fheap[1], norder, worder)
        /\ res' = [NoResult EXCEPT !.op = "tojson", !.id = "f1", !.ref = 1, !.err = "ok",
                                   !.was = fheap[1].status]
        /\ UNCHANGED <<registry, fheap, rlock, rcall>>
        /\ RegFrame

\* NewFlow of the same definition, entered: the definition is decoded and the
\* empty Flow made; no Registry lock is held.
ConstructBegin ==
    /\ building.i = 0
    /\ RegBudget
    /\ building' = [i |-> 1, nodes |-> <<>>, factories |-> <<>>]
    /\ UNCHANGED <<registry, fheap, res, rlock, rcall, rlog, json>>
    /\ BuildFrame

\* NewFlow returns r = [err, flow]: the call is logged with caller 0, and a
\* Flow returned is a new object.
ConstructReturns(r) ==
    /\ rlog' = Append(rlog, [p |-> 0, op |-> "newflow", name |-> "", err |-> r.err])
    /\ res' = [NoResult EXCEPT !.op = "newflow", !.id = "f2", !.err = r.err,
                               !.ref = IF r.err = "ok" THEN Len(fheap) + 1 ELSE 0]
    /\ fheap' = IF r.err = "ok" THEN Append(fheap, r.flow) ELSE fheap

\* NewFlow, one turn of the loop over def.Nodes: GetNodeType takes the read
\* lock, looks the type up in the Registry as it is at this moment and
\* releases the lock; NewNode then calls the factory found.  Other callers'
\* Registry calls run between two turns.
ConstructLookup ==
    LET i == building.i
        nb == BuildNodes(SubSeq(RegDef.Nodes, 1, i), i, building.nodes, registry)
    IN /\ i \in DOMAIN RegDef.Nodes
       /\ CanRLock(rlock)
       /\ IF nb.err = "ok"
          THEN /\ building' = [i |-> i + 1, nodes |-> nb.nodes,
                               factories |-> Append(building.factories,
                                                    registry[RegDef.Nodes[i].Type].Factory)]
               /\ UNCHANGED <<res, rlog, fheap>>
          ELSE /\ building' = [building EXCEPT !.i = 0]
               /\ ConstructReturns([err |-> nb.err, flow |-> NoFlow])
       /\ UNCHANGED <<registry, rlock, rcall, json>>
       /\ BuildFrame

\* NewFlow after the last Node: the loop over def.Wires connects the Nodes
\* built, and the Flow is returned, a new object.
ConstructFinish ==
    LET r == WireFlow("f2", RegDef, building.nodes)
    IN /\ building.i = Len(RegDef.Nodes) + 1
       /\ building' = [building EXCEPT !.i = 0,
                                       !.nodes = IF r.err = "ok" THEN r.flow.Nodes ELSE @]
       /\ ConstructReturns(r)
       /\ UNCHANGED <<registry, rlock, rcall, json>>
       /\ BuildFrame

NextRegistry ==
    \/ RegisterBegin
    \/ UnregisterBegin
    \/ WriterCheck
    \/ RegisterFinish
    \/ UnregisterFinish
    \/ GetNodeType
    \/ ListBegin
    \/ ListStep
    \/ ListFinish
    \/ RegistryFlowStartEnter
    \/ RegistryFlowStartNode
    \/ RegistryFlowStartReturn
    \/ RegistryFlowStopEnter
    \/ RegistryFlowStopNode
    \/ RegistryFlowStopReturn
    \/ RegistrySend
    \/ RegistrySerialize
    \/ ConstructBegin
    \/ ConstructLookup
    \/ ConstructFinish

SpecRegistry == InitRegistry /\ [][NextRegistry]_vars

-----------------------------------------------------------------------------
\* C21 (as claimed): when DeleteFlow(id) returns, the Flow the table held under
\* id at the call is stopped, none of its Nodes running, and the table has no
\* entry for id, also when the store's delete fails; the store's delete was
\* called for id once whether or not a Flow was held, and its result is returned.
C21_DeleteRemovesThenStore ==
    [][(res'.op = "delete" /\ nops' = nops + 1)
        => LET id == res'.id
               was == ecall.flows
           IN /\ flows' = MapDel(was, id)
              /\ id \in DOMAIN was
                    => /\ fheap'[was[id]].status = "stopped"
                       /\ \A n \in DOMAIN fheap'[was[id]].Nodes : ~fheap'[was[id]].Nodes[n].running
              /\ res'.attempted = <<id>>
              /\ res'.err = IF id \notin DOMAIN storage THEN "NotFound"
                            ELSE IF storage' = storage THEN "DeleteError" ELSE "ok"
              /\ storage' = IF res'.err = "ok" THEN MapDel(storage, id) ELSE storage]_vars

\* The definition loads into a Flow: it parses, its nodes are constructed, its
\* wires name nodes of the definition on ports that are not negative.
Constructs(d) ==
    /\ NodePhaseOk(d)
    /\ ~HasDanglingWire(d)
    /\ \A p \in DefPorts(d) : p >= 0

\* C22: Initialize fails only when the listing of the ids fails; otherwise it
\* visits every stored id, in each case going on to the next, and the table
\* holds a Flow, mirroring the stored definition, for exactly the ids whose
\* definition loaded and constructs.
C22_InitializeSkipsFailures ==
    [][(res'.op = "initialize" /\ res.op = "none")
        => IF res'.err = "ListError"
           THEN flows' = flows /\ fheap' = fheap
           ELSE /\ res'.err = "ok"
                /\ [i \in DOMAIN res'.outcomes |-> res'.outcomes[i].id] = ListFlows(storage)
                /\ \A i \in DOMAIN res'.outcomes :
                      LET o == res'.outcomes[i]
                      IN /\ o.outcome = "ok" <=> (o.outcome # "LoadError" /\ Constructs(storage[o.id]))
                         /\ o.outcome = "ok" <=> o.id \in DOMAIN flows'
                         /\ o.outcome = "ok" => Mirrors(fheap'[flows'[o.id]], storage[o.id])
                /\ DOMAIN flows' \subseteq DOMAIN storage]_vars

\* C23: Engine.Start on a running Engine fails with AlreadyRunning, Engine.Stop
\* on an Engine that is not running fails with NotRunning, and in both cases
\* the status, the context, the table and every Flow object are as before.
C23_EngineStatusMismatch ==
    [][/\ (res'.op = "enginestart" /\ nops' = nops + 1 /\ estatus = "running")
          => /\ res'.err = "AlreadyRunning"
             /\ UNCHANGED <<estatus, ectx, flows, fheap>>
       /\ (res'.op = "enginestop" /\ nops' = nops + 1 /\ estatus # "running")
          => /\ res'.err = "NotRunning"
             /\ UNCHANGED <<estatus, ectx, flows, fheap>>
       /\ (res'.op \in {"enginestart", "enginestop"} /\ nops' = nops + 1
           /\ res'.err # "ok")
          => UNCHANGED <<estatus, ectx, flows, fheap>>]_vars

\* C23 witness: Engine.Stop has failed with NotRunning on an Engine that was
\* running before (its context replaced once) and holds a Flow.
C23_Witness ==
    /\ res.op = "enginestop"
    /\ res.err = "NotRunning"
    /\ estatus = "stopped"
    /\ ectx > 1
    /\ DOMAIN flows # {}

\* A step in which caller p's call of the given kind returns.
WriterReturns(p, op) == rcall[p].op = op /\ rcall[p].pc = "checked" /\ rcall'[p].pc = "done"
\* A step in which a call is logged with the given kind.
Logged(op) == Len(rlog') = Len(rlog) + 1 /\ rlog'[Len(rlog')].op = op

\* C24: a RegisterNodeType of a name that is registered returns DuplicateType
\* and leaves the map as it was, so that GetNodeType still returns the
\* descriptor registered first; a name absent is registered with the
\* descriptor given; of two registrations of one name with no unregistration
\* of it between them the later one fails, however the callers interleave.
C24_DuplicateRegisterRejected ==
    [][/\ \A p \in RegProcs :
             WriterReturns(p, "register")
             => LET name == rcall[p].arg.Name
                IN IF name \in DOMAIN registry
                   THEN rcall'[p].err = "DuplicateType" /\ registry' = registry
                   ELSE rcall'[p].err = "ok" /\ registry' = MapSet(registry, name, rcall[p].arg)
       /\ \A p \in RegProcs :
             (Logged("get") /\ rlog'[Len(rlog')].p = p /\ rcall'[p].arg.Name \in DOMAIN registry)
             => rcall'[p].ret = <<registry[rcall'[p].arg.Name]>> /\ registry' = registry
       /\ \A i, j \in DOMAIN rlog' :
             (/\ i < j
              /\ rlog'[i].op = "register" /\ rlog'[i].err = "ok"
              /\ rlog'[j].op = "register" /\ rlog'[j].err = "ok"
              /\ rlog'[i].name = rlog'[j].name)
             => \E k \in (i + 1)..(j - 1) :
                   /\ rlog'[k].op = "unregister" /\ rlog'[k].err = "ok"
                   /\ rlog'[k].name = rlog'[i].name]_vars

\* C24 witness: two callers have registered descriptors of one name with
\* different factories; the first succeeded, the second got DuplicateType, and
\* the map holds the first caller's descriptor.
C24_Witness ==
    \E p, q \in RegProcs :
        /\ p # q
        /\ Len(rlog) = 2
        /\ rlog[1] = [p |-> p, op |-> "register", name |-> "debug", err |-> "ok"]
        /\ rlog[2] = [p |-> q, op |-> "register", name |-> "debug", err |-> "DuplicateType"]
        /\ rcall[p].arg.Factory # rcall[q].arg.Factory
        /\ registry["debug"] = rcall[p].arg

\* The Flow at address a is running with every Node running.
AllRunning(a) == fheap[a].status = "running" /\ \A n \in DOMAIN fheap[a].Nodes : fheap[a].Nodes[n].running

\* The Flow built before as the Flow.Start or Flow.Stop that returns in this
\* step found it when it took the Flow's lock.
FlowFound == IF fcall.op = "none" THEN fheap[1] ELSE fcall.found

\* C25: UnregisterNodeType of a name that is absent returns UnknownType and
\* changes nothing, otherwise it removes that name only; in either case the
\* Flows built before are the same objects with the same Nodes, and no call
\* ever changes the behaviour instance or the wires of a Node built.  Whatever
\* the Registry holds, such a Flow starts, stops, is sent through and
\* serializes as its definition and its Nodes' state have it: a Flow.Start
\* returns nil with every Node running, or the error of a Node's own start and
\* never a type error, and on a Flow with no Node running it fails only when a
\* behaviour's Start does; a Flow.Stop leaves the Flow stopped; a Send on a
\* Node fails with NotRunning exactly when the Node is not running, otherwise
\* it hands a copy to the targets the definition wires to the port, in order,
\* up to the first whose OnMessage fails; ToJSON lists the definition's nodes.
\* Meanwhile GetNodeType succeeds only for a name registered now and each
\* lookup of a NewFlow succeeds only for a type registered when it is made: a
\* NewFlow returns without error only after every one of its lookups found its
\* type, and one lookup of an absent type ends it with UnknownNodeType.
C25_UnregisterLeavesBuiltNodes ==
    [][/\ \A p \in RegProcs :
             WriterReturns(p, "unregister")
             => LET name == rcall[p].arg.Name
                IN /\ IF name \in DOMAIN registry
                      THEN rcall'[p].err = "ok" /\ registry' = MapDel(registry, name)
                      ELSE rcall'[p].err = "UnknownType" /\ registry' = registry
                   /\ fheap' = fheap
                   /\ flows' = flows
       /\ \A n \in DOMAIN fheap[1].Nodes :
             /\ n \in DOMAIN fheap'[1].Nodes
             /\ fheap'[1].Nodes[n].instance = fheap[1].Nodes[n].instance
             /\ fheap'[1].Nodes[n].wires = fheap[1].Nodes[n].wires
       /\ Logged("flowstart")
          => /\ res'.err \in {"ok", "AlreadyRunning", "StartError"}
             /\ res'.err = "ok" => (FlowFound.status = "stopped" /\ AllRunning(1)')
             /\ (FlowFound.status = "stopped"
                 /\ \A n \in DOMAIN FlowFound.Nodes : ~FlowFound.Nodes[n].running)
                => \/ res'.err = "ok"
                   \/ /\ res'.err = "StartError"
                      /\ ~fheap'[1].Nodes[res'.attempted[Len(res'.attempted)]].running
       /\ Logged("flowstop")
          => /\ fheap'[1].status = "stopped"
             /\ FlowFound.status = "running"
                => \A n \in DOMAIN fheap'[1].Nodes : ~fheap'[1].Nodes[n].running
       /\ Logged("send")
          => LET s == res'.id
                 wired == DefTargets(RegDef, s, 0)
             IN /\ fheap' = fheap
                /\ res'.err = "NotRunning" <=> ~fheap[1].Nodes[s].running
                /\ res'.err \in {"ok", "NotRunning", "DeliveryError"}
                /\ res'.err = "NotRunning" => res'.attempted = <<>>
                /\ res'.err = "ok" => res'.attempted = wired
                /\ res'.err = "DeliveryError"
                      => /\ res'.attempted # <<>>
                         /\ res'.attempted = SubSeq(wired, 1, Len(res'.attempted))
                /\ Len(msgs') = 1 + Len(res'.attempted)
                /\ \A a \in DOMAIN msgs' : msgs'[a].MsgID = msgs'[1].MsgID
       /\ Logged("tojson")
          => {json'.Nodes[i] : i \in DOMAIN json'.Nodes} = {RegDef.Nodes[i] : i \in DOMAIN RegDef.Nodes}
       /\ (building.i \in DOMAIN RegDef.Nodes /\ building' # building)
          => LET type == RegDef.Nodes[building.i].Type
             IN IF type \in DOMAIN registry
                THEN /\ building'.i = building.i + 1
                     /\ building'.factories = Append(building.factories, registry[type].Factory)
                     /\ rlog' = rlog
                ELSE Logged("newflow") /\ res'.err = "UnknownNodeType"
       /\ (Logged("newflow") /\ res'.err = "ok")
          => building.i = Len(RegDef.Nodes) + 1
       /\ \A p \in RegProcs :
             (Logged("get") /\ rlog'[Len(rlog')].p = p)
             => rcall'[p].err = IF rcall'[p].arg.Name \in DOMAIN registry THEN "ok" ELSE "UnknownType"]_vars

\* C25 witness: the type of the Flow's Nodes was unregistered after a
\* construction had built its first Node from it; then a Send through Node A of
\* the running Flow built before handed a copy to B and returned nil; then the
\* construction's second lookup failed.
C25_Witness ==
    /\ Len(rlog) = 3
    /\ rlog[1].op = "unregister" /\ rlog[1].name = "echo" /\ rlog[1].err = "ok"
    /\ rlog[2].op = "send" /\ rlog[2].err = "ok"
    /\ rlog[3].op = "newflow" /\ rlog[3].err = "UnknownNodeType"
    /\ building.factories = <<"echo">>
    /\ Len(msgs) = 2
    /\ AllRunning(1)
    /\ "echo" \notin DOMAIN registry

\* The descriptors the map holds.
Descriptors(reg) == {reg[n] : n \in DOMAIN reg}

\* C26: while a GetAllNodeTypes call is between its RLock and its return the
\* map does not change, the slice it returns holds each descriptor of the map
\* once and nothing else, and a slice returned stays as it was returned
\* whatever is registered or unregistered later.
C26_ListIsSnapshot ==
    [][\A p \in RegProcs :
          /\ rcall[p].pc = "ranging" => registry' = registry
          /\ (rcall[p].pc = "ranging" /\ rcall'[p].pc = "done")
             => /\ {rcall'[p].ret[i] : i \in DOMAIN rcall'[p].ret} = Descriptors(registry)
                /\ Len(rcall'[p].ret) = Cardinality(DOMAIN registry)
          /\ (/\ rcall[p].pc = "done" /\ rcall'[p].pc = "done"
              /\ ~(Len(rlog') > Len(rlog) /\ rlog'[Len(rlog')].p = p))
             => rcall'[p].ret = rcall[p].ret]_vars

\* C26 witness: a list call returned two descriptors, and one of them has been
\* unregistered since.
C26_Witness ==
    \E p \in RegProcs :
        /\ rcall[p].op = "list"
        /\ rcall[p].pc = "done"
        /\ Len(rcall[p].ret) = 2
        /\ Cardinality(DOMAIN registry) = 1

\* The context a Node was started with is the Engine's (one of its generations),
\* not a request's.
DerivedFromEngine(n) == n.parent >= 1
\* The Node's context is done: its own cancel was called, or it descends from
\* a generation of the Engine's context that Engine.Stop has cancelled.
ScopeCancelled(n, current) ==
    \/ n.scope = "cancelled"
    \/ n.scope = "live" /\ DerivedFromEngine(n) /\ n.parent < current

\* C27: every running Node of a held Flow was started with a context derived
\* from the Engine's; when Engine.Stop has returned nil every Node of a held
\* Flow that was ever started has its context cancelled, and when Flow.Stop has
\* returned so has every Node of that Flow.
C27_ScopesDescendFromEngine ==
    [][/\ \A id \in DOMAIN flows' : \A n \in DOMAIN fheap'[flows'[id]].Nodes :
             fheap'[flows'[id]].Nodes[n].running
             => DerivedFromEngine(fheap'[flows'[id]].Nodes[n])
       /\ (res'.op = "enginestop" /\ nops' = nops + 1 /\ res'.err = "ok")
          => \A id \in DOMAIN flows' : \A n \in DOMAIN fheap'[flows'[id]].Nodes :
                fheap'[flows'[id]].Nodes[n].scope # "none"
                => ScopeCancelled(fheap'[flows'[id]].Nodes[n], ectx')
       /\ (res'.op = "flowstop" /\ nops' = nops + 1)
          => \A n \in DOMAIN fheap'[res'.ref].Nodes :
                fheap'[res'.ref].Nodes[n].scope # "none"
                => ScopeCancelled(fheap'[res'.ref].Nodes[n], ectx')]_vars

\* The entries of a sequence, as a set.
Entries(q) == {q[i] : i \in DOMAIN q}

\* C30: the definition Flow.ToJSON returns for a Flow built from a definition
\* with distinct node ids lists that definition's nodes (id, type, name,
\* config) and its wires (source, target, port), and a Flow constructed from it
\* has the same Nodes with the same targets on every port.
C30_SerializeRoundTrip ==
    [][(json = NoJSON /\ json' # NoJSON
        /\ \A i, j \in DOMAIN def.Nodes : def.Nodes[i].ID = def.Nodes[j].ID => i = j)
        => /\ Entries(json'.Nodes) = Entries(def.Nodes)
           /\ Entries(json'.Wires) = Entries(def.Wires)
           /\ Len(json'.Wires) = Len(def.Wires)
           /\ LET again == NewFlow("f1", json', registry)
              IN /\ again.err = "ok"
                 /\ DOMAIN again.flow.Nodes = DOMAIN fheap[flows["f1"]].Nodes
                 /\ \A n \in DOMAIN again.flow.Nodes :
                       LET old == fheap[flows["f1"]].Nodes[n]
                           new == again.flow.Nodes[n]
                       IN /\ Len(new.wires) = Len(old.wires)
                          /\ \A k \in DOMAIN old.wires :
                                [t \in DOMAIN new.wires[k] |-> json'.Nodes[new.wires[k][t]].ID]
                                = [t \in DOMAIN old.wires[k] |-> def.Nodes[old.wires[k][t]].ID]]_vars

-----------------------------------------------------------------------------
(* Node.mu: goroutines calling Start, Stop and Send of one running Node whose
   port 0 is wired back to the Node itself, each call taken statement by
   statement *)

\* sync.RWMutex.RLock returns at once unless a writer holds the lock or a
\* caller is waiting in Lock; a read lock the caller already holds makes no
\* difference.
NodeCanRLock_IgnoreWriter(l) == TRUE
NodeCanRLock(l) == l.writer = 0 /\ l.waiting = {}
\* Mutant of NodeCanLock: the readers are not waited for.
NodeCanLock_IgnoreReaders(l) == l.writer = 0
\* sync.RWMutex.Lock returns when no writer and no reader holds the lock.
NodeCanLock(l) == l.writer = 0 /\ \A t \in Threads : l.readers[t] = 0

\* The Node after NewFlow and Flow.Start: wired to itself on port 0, running.
LoopNode ==
    NodeStart(AddWire(NewNodeRec("n", "n", "echo", "ok", "n"), 0,
                      NewNodeRec("n", "n", "echo", "ok", "n")).node, 1, TRUE).node

InitNodeLock ==
    /\ msgs = <<>>
    /\ hdrs = <<>>
    /\ metas = <<>>
    /\ cells = <<>>
    /\ snap = <<>>
    /\ nmut = 0
    /\ RegistryIdle
    /\ json = NoJSON
    /\ LockIdle
    /\ held = NoHeld
    /\ healed = FALSE
    /\ ecall = NoEngineCall
    /\ elock = EngineLockFree
    /\ node = LoopNode
    /\ hist = "new"
    /\ pc = "idle"
    /\ sPort = 0
    /\ sMsg = 0
    /\ sIdx = 0
    /\ sResult = "none"
    /\ sRunning = FALSE
    /\ log = <<>>
    /\ lc = NoCall
    /\ chain = NoChain
    /\ dep = NoDeploy
    /\ def = EmptyDef
    /\ EngineNew

LockFrame ==
    UNCHANGED <<heapVars, hist, pc, sPort, sMsg, sIdx, sResult, sRunning, log, lc,
                engineVars, chainVars, regVars, json, handlerVars, elock>>

\* A goroutine at rest calls op: for Send and for the writers alike the first
\* statement is the lock request.
CallBegin(t, op, first) ==
    /\ th[t].pc = "idle"
    /\ ncalls < MaxLockCalls
    /\ ncalls' = ncalls + 1
    /\ th' = [th EXCEPT ![t] = [NoThreadCall EXCEPT !.op = op, !.pc = first]]

\* Node.Send called from outside the Node: n.mu.RLock() is reached.
SendRequest ==
    \E t \in Senders :
        /\ CallBegin(t, "send", "rlock")
        /\ UNCHANGED <<node, nlock>>
        /\ LockFrame

\* n.mu.RLock() returns.
SendAcquire ==
    \E t \in Senders :
        /\ th[t].pc = "rlock"
        /\ NodeCanRLock(nlock)
        /\ nlock' = [nlock EXCEPT !.readers[t] = @ + 1]
        /\ th' = [th EXCEPT ![t].pc = "check"]
        /\ UNCHANGED <<node, ncalls>>
        /\ LockFrame

\* The test of n.running and of the port: the error, or on to the delivery.
SendRunningCheck ==
    \E t \in Senders :
        /\ th[t].pc = "check"
        /\ th' = [th EXCEPT ![t].pc = IF node.running THEN "deliver" ELSE "return",
                            ![t].err = IF node.running THEN "" ELSE "NotRunning",
                            ![t].done = IF node.running THEN Append(@, "passed") ELSE @]
        /\ UNCHANGED <<node, nlock, ncalls>>
        /\ LockFrame

\* target.OnMessage: the behaviour of the Node wired back forwards the message
\* with n.Send(msg, 0) until MaxReentry nested calls are on the stack, then
\* returns nil.
SendOnMessage ==
    \E t \in Senders :
        /\ th[t].pc = "deliver"
        /\ th' = [th EXCEPT ![t].pc = IF nlock.readers[t] <= MaxReentry THEN "rlock" ELSE "return"]
        /\ UNCHANGED <<node, nlock, ncalls>>
        /\ LockFrame

\* A Send returns: the deferred RUnlock; the calling Send, if there is one,
\* has had its only target and returns next.
SendRelease ==
    \E t \in Senders :
        /\ th[t].pc = "return"
        /\ nlock' = [nlock EXCEPT !.readers[t] = @ - 1]
        /\ th' = [th EXCEPT ![t].pc = IF nlock.readers[t] = 1 THEN "idle" ELSE "return",
                            ![t].err = IF @ = "" /\ nlock.readers[t] = 1 THEN "ok" ELSE @]
        /\ UNCHANGED <<node, ncalls>>
        /\ LockFrame

\* Node.Stop or Node.Start called: n.mu.Lock() is reached.
WriterRequest ==
    \E op \in {"stop", "start"} :
        /\ CallBegin(Controller, op, "lock")
        /\ nlock' = [nlock EXCEPT !.waiting = @ \cup {Controller}]
        /\ UNCHANGED node
        /\ LockFrame

\* n.mu.Lock() returns.
WriterAcquire ==
    /\ th[Controller].pc = "lock"
    /\ NodeCanLock(nlock)
    /\ nlock' = [nlock EXCEPT !.writer = Controller, !.waiting = @ \ {Controller}]
    /\ th' = [th EXCEPT ![Controller].pc = "check"]
    /\ UNCHANGED <<node, ncalls>>
    /\ LockFrame

\* Node.Stop, the test of n.running.
StopRunningCheck ==
    /\ th[Controller].pc = "check"
    /\ th[Controller].op = "stop"
    /\ th' = [th EXCEPT ![Controller].pc = IF node.running THEN "invoke" ELSE "return"]
    /\ UNCHANGED <<node, nlock, ncalls>>
    /\ LockFrame

\* Node.Stop, n.instance.Stop() called and returned.
StopBehaviour ==
    /\ th[Controller].pc = "invoke"
    /\ th' = [th EXCEPT ![Controller].pc = "cancel", ![Controller].done = Append(@, "instance.Stop")]
    /\ UNCHANGED <<node, nlock, ncalls>>
    /\ LockFrame

\* Node.Stop, n.cancel().
StopCancelScope ==
    /\ th[Controller].pc = "cancel"
    /\ node' = [node EXCEPT !.scope = "cancelled"]
    /\ th' = [th EXCEPT ![Controller].pc = "clear", ![Controller].done = Append(@, "cancel")]
    /\ UNCHANGED <<nlock, ncalls>>
    /\ LockFrame

\* Node.Stop, n.running = false.
StopClearRunning ==
    /\ th[Controller].pc = "clear"
    /\ node' = [node EXCEPT !.running = FALSE]
    /\ th' = [th EXCEPT ![Controller].pc = "return", ![Controller].done = Append(@, "running = false")]
    /\ UNCHANGED <<nlock, ncalls>>
    /\ LockFrame

\* Node.Start under the lock: the test, the new context, the behaviour's Start,
\* the flag.
StartBody ==
    \E ok \in BOOLEAN :
        /\ th[Controller].pc = "check"
        /\ th[Controller].op = "start"
        /\ node' = NodeStart(node, 1, ok).node
        /\ th' = [th EXCEPT ![Controller].pc = "return",
                            ![Controller].err = NodeStart(node, 1, ok).err]
        /\ UNCHANGED <<nlock, ncalls>>
        /\ LockFrame

\* Start or Stop returns: the deferred Unlock.
WriterRelease ==
    /\ th[Controller].pc = "return"
    /\ nlock' = [nlock EXCEPT !.writer = 0]
    /\ th' = [th EXCEPT ![Controller].pc = "idle"]
    /\ UNCHANGED <<node, ncalls>>
    /\ LockFrame

SenderStep(t) ==
    /\ \/ SendRequest
       \/ SendAcquire
       \/ SendRunningCheck
       \/ SendOnMessage
       \/ SendRelease
    /\ <<th'[t], nlock'.readers[t]>> # <<th[t], nlock.readers[t]>>

ControllerStep ==
    \/ WriterRequest
    \/ WriterAcquire
    \/ StopRunningCheck
    \/ StopBehaviour
    \/ StopCancelScope
    \/ StopClearRunning
    \/ StartBody
    \/ WriterRelease

NextNodeLock ==
    \/ SendRequest
    \/ SendAcquire
    \/ SendRunningCheck
    \/ SendOnMessage
    \/ SendRelease
    \/ WriterRequest
    \/ WriterAcquire
    \/ StopRunningCheck
    \/ StopBehaviour
    \/ StopCancelScope
    \/ StopClearRunning
    \/ StartBody
    \/ WriterRelease

SpecNodeLock == InitNodeLock /\ [][NextNodeLock]_vars

\* Every goroutine that can take a step is scheduled in the end.
SpecNodeLockFair ==
    /\ SpecNodeLock
    /\ WF_vars(ControllerStep)
    /\ \A t \in Senders : WF_vars(SenderStep(t))

\* Node.Stop has been called and has not returned.
StopInProgress == th[Controller].op = "stop" /\ th[Controller].pc # "idle"

\* C28: every call of Stop that has begun returns in
\* the end, as does every Send in flight while a Stop is, the behaviour's
\* OnMessage and Stop returning each time they are called.
C28_StopAndSendReturn ==
    /\ StopInProgress ~> (th[Controller].pc = "idle")
    /\ \A t \in Senders : (StopInProgress /\ th[t].pc # "idle") ~> (th[t].pc = "idle")

\* The steps of Node.Stop between the behaviour's Stop and the Unlock.
MidStop == th[Controller].op = "stop" /\ th[Controller].pc \in {"cancel", "clear", "return"}

\* C29: Node.Stop on a running Node calls the behaviour's Stop, then cancels
\* the context, then clears the running flag; while it is between these steps
\* it holds the write lock, no Send holds or obtains the read lock, and
\* whenever the write lock is free a Node that is not running has no live
\* context.
C29_StopOrder ==
    [][/\ th'[Controller].op = "stop"
          => \E k \in 0..3 :
                th'[Controller].done = SubSeq(<<"instance.Stop", "cancel", "running = false">>, 1, k)
       /\ (th[Controller].pc = "cancel" /\ th'[Controller].pc = "clear")
          => node.scope = "live" /\ node'.scope = "cancelled" /\ node'.running
       /\ (th[Controller].pc = "clear" /\ th'[Controller].pc = "return")
          => node'.scope = "cancelled" /\ ~node'.running
       /\ MidStop'
          => /\ nlock'.writer = Controller
             /\ \A t \in Senders : nlock'.readers[t] = 0 /\ th'[t].pc \in {"idle", "rlock"}
       /\ nlock'.writer = 0 => ~(~node'.running /\ node'.scope = "live")]_vars

\* C29 witness: Stop has called the behaviour's Stop and cancelled the context
\* and has not yet cleared the flag, while a Send called in the meantime waits
\* for the read lock.
C29_Witness ==
    /\ th[Controller].op = "stop"
    /\ th[Controller].pc = "clear"
    /\ th[Controller].done = <<"instance.Stop", "cancel">>
    /\ node.running
    /\ node.scope = "cancelled"
    /\ \E t \in Senders : th[t].pc = "rlock"

\* C31: every copy Send hands to a target, at every hop of a chain, has the
\* MsgID, Topic, SourceID and Timestamp of the message the first Send was given;
\* when that message's payload is the string "x", so is every copy's.
C31_CloneKeepsIdentity ==
    \A a \in DOMAIN msgs :
        /\ msgs[a].MsgID = msgs[1].MsgID
        /\ msgs[a].Topic = msgs[1].Topic
        /\ msgs[a].SourceID = msgs[1].SourceID
        /\ msgs[a].Timestamp = msgs[1].Timestamp
        /\ msgs[1].Payload = StrVal("x") => snap[a].Payload = snap[1].Payload

\* C31 witness: the chain A -> B -> C has ended, B and C each received a copy,
\* and C's copy carries the payload "x" and the id NewMessage gave the original.
C31_Witness ==
    /\ chain.state = "done"
    /\ chain.recv = <<"B", "C">>
    /\ Len(msgs) = 3
    /\ msgs[1].Payload = StrVal("x")
    /\ msgs[3].Payload = StrVal("x")
    /\ msgs[3].MsgID = "id1"

\* C32: between calls, a Flow whose status is stopped holds no running Node.
C32_StoppedFlowHasNoRunningNode ==
    \A a \in DOMAIN fheap :
        (EngineIdle /\ fheap[a].status = "stopped")
        => \A n \in DOMAIN fheap[a].Nodes : ~fheap[a].Nodes[n].running

-----------------------------------------------------------------------------
(* Retrying a Flow whose start failed: Server.handleStartFlow and
   Server.handleStopFlow called again and again on the Flows of the table *)

\* From here on no behaviour's Start returns an error.
BehavioursAccept ==
    /\ Serving
    /\ ~healed
    /\ healed' = TRUE
    /\ UNCHANGED <<heapVars, nodeVars, engineVars, chainVars, regVars, json, lockVars, held, ecall, elock>>

\* Server.handleStartFlow for id, after its GetFlow: flow.Start on the pointer.
RetryStart(id) ==
    /\ Serving
    /\ held # NoHeld
    /\ held.id = id
    /\ \E perm \in Perms(NodeIds), fails \in (IF healed THEN {{}} ELSE SUBSET NodeIds) :
         LET r == FlowStart(fheap[held.ref], RequestCtx, perm, fails)
         IN /\ fheap' = SeqSet(fheap, held.ref, r.flow)
            /\ res' = [op |-> "flowstart", id |-> held.id, ref |-> held.ref, err |-> r.err,
                       was |-> fheap[held.ref].status, attempted |-> r.attempted,
                       outcomes |-> <<>>]
    /\ held' = NoHeld
    /\ UNCHANGED <<def, registry, storage, flows, estatus, ectx, nops>>
    /\ HandlerFrame

\* Server.handleStopFlow for id, after its GetFlow: flow.Stop on the pointer.
RetryStop(id) ==
    /\ Serving
    /\ held # NoHeld
    /\ held.id = id
    /\ \E perm \in Perms(NodeIds) :
         /\ fheap' = SeqSet(fheap, held.ref, FlowStop(fheap[held.ref]))
         /\ res' = [op |-> "flowstop", id |-> held.id, ref |-> held.ref, err |-> "ok",
                    was |-> fheap[held.ref].status,
                    attempted |-> FlowStopVisits(fheap[held.ref], perm),
                    outcomes |-> <<>>]
    /\ held' = NoHeld
    /\ UNCHANGED <<def, registry, storage, flows, estatus, ectx, nops>>
    /\ HandlerFrame

NextRetry ==
    \/ EngineInitialize
    \/ BehavioursAccept
    \/ HandlerGetFlow
    \/ \E id \in FlowIds : RetryStart(id)
    \/ \E id \in FlowIds : RetryStop(id)

\* The caller keeps retrying: for each Flow a start request is made again and
\* again and carried through, and the behaviours come to accept Start.
SpecRetryFair ==
    /\ InitEngine
    /\ [][NextRetry]_vars
    /\ WF_vars(EngineInitialize)
    /\ WF_vars(BehavioursAccept)
    /\ \A id \in FlowIds : SF_vars(HandlerGet(id)) /\ SF_vars(RetryStart(id))

\* The Flow is running and so is every one of its Nodes.
FlowUp(f) == f.status = "running" /\ \A n \in DOMAIN f.Nodes : f.Nodes[n].running

\* C33: once the behaviours accept Start, calls of Flow.Stop and Flow.Start bring
\* each Flow of the table to status running with all of its Nodes running, a Flow
\* whose earlier start failed included.
C33_FailedStartRecoverable ==
    \A id \in FlowIds :
        (Serving /\ healed /\ id \in DOMAIN flows) ~> (id \in DOMAIN flows /\ FlowUp(fheap[flows[id]]))

-----------------------------------------------------------------------------
(* Handlers holding a *Flow across Engine calls: Server.handleStartFlow and
   Server.handleStopFlow obtain the Flow from Engine.GetFlow, which releases the
   Engine's lock on return, and call Start or Stop on it afterwards *)

\* A definition whose JSON carries an id of its own.
CarriedIdDef ==
    [malformed |-> FALSE, ID |-> "f2", Name |-> "flow",
     Nodes |-> <<[ID |-> "A", Type |-> "echo", Name |-> "n1", Config |-> "ok"]>>,
     Wires |-> <<>>]

\* Engine.DeployFlow, the definitions with an id of their own included.
DeployEnterAny == DeployEnterFrom(EngineDefs \cup {CarriedIdDef})

NextHandler ==
    \/ EngineInitialize
    \/ DeployEnterAny
    \/ DeployReturn
    \/ DeleteEnter
    \/ DeleteReturn
    \/ EngineStartEnter
    \/ EngineStartFlow
    \/ EngineStartReturn
    \/ HandlerGetFlow
    \/ HandlerStart
    \/ HandlerStop

SpecHandler == InitEngine /\ [][NextHandler]_vars

\* The Flow object executes: its status is running or one of its Nodes is.
Executing(f) == f.status = "running" \/ \E n \in DOMAIN f.Nodes : f.Nodes[n].running

\* C34: a Flow object that executes is the one the Engine's table holds, also
\* when a handler starts or stops a Flow it obtained before a deploy or delete.
C34_OnlyDeployedFlowsExecute ==
    \A a \in DOMAIN fheap : Executing(fheap[a]) => a \in Installed

\* C35: whenever a Send calls a behaviour's OnMessage, the Node of that behaviour
\* is running, also while Flow.Stop is part-way through the Nodes of the Flow.
C35_ReceiveOnlyWhileRunning ==
    [][Len(chain'.recv) > Len(chain.recv)
          => OldFlow.Nodes[chain'.recv[Len(chain'.recv)]].running]_vars

\* C36: every Flow the Engine's table holds under key k has Flow.ID equal to k,
\* also after a deploy whose definition carries an id different from k.
C36_FlowIdEqualsKey ==
    \A k \in DOMAIN flows : fheap[flows[k]].ID = k

\* C37: a Send with a negative port on a running Node ends with a normal outcome,
\* success or an error value, never with a run-time panic.
C37_NegativePortNoCrash ==
    (pc = "done" /\ sPort < 0) => sResult \in {"ok", "NotRunning", "DeliveryError"}

\* The Send of goroutine t has found the Node running and has not returned.
PassedCheck(t) == th[t].op = "send" /\ th[t].done # <<>> /\ nlock.readers[t] > 0

\* C39: from the moment a Send has found the Node running until it has returned,
\* the Node's running flag stays true and no Stop (or Start) is past its Lock, so
\* the behaviour's Stop is not invoked; Sends of different goroutines overlap.
C39_SendNotOvertakenByStop ==
    \A t \in Senders :
        PassedCheck(t)
        => /\ node.running
           /\ nlock.writer = 0
           /\ th[Controller].pc \in {"idle", "lock"}
           /\ th[Controller].done = <<>>

\* Two Sends past their running check at once while a Stop waits in Lock.
C39_Witness ==
    /\ \A t \in Senders : PassedCheck(t) /\ th[t].pc = "deliver"
    /\ th[Controller].op = "stop" /\ th[Controller].pc = "lock"

\* C40: between calls, a Node whose running flag is true has a context that is
\* not cancelled, whatever Engine.Start, Engine.Stop, deploy, Flow.Start and
\* Flow.Stop calls came before.
C40_RunningNodeHasLiveScope ==
    \A a \in DOMAIN fheap : \A n \in DOMAIN fheap[a].Nodes :
        (EngineIdle /\ fheap[a].Nodes[n].running)
        => ~ScopeCancelled(fheap[a].Nodes[n], ectx)

-----------------------------------------------------------------------------
(* The Engine's lock next to a Node's lock: goroutines that call Send on a
   running Node of a running Flow and the Engine's read accessors, and one that
   calls DeployFlow, DeleteFlow or Engine.Stop for that Flow.  A behaviour's
   OnMessage returns or never does. *)

AccessorOps == {"getflow", "listflows", "status"}
EngineWriterOps == {"deploy", "delete", "enginestop"}

\* sync.RWMutex on Engine.mu, as on Node.mu.
EngineCanRLock(l) == l.writer = 0 /\ l.waiting = {}
EngineCanLock(l) == l.writer = 0 /\ l.readers = {}

\* The definition of the Flow the senders' Node belongs to: two Nodes, A wired
\* to B on port 0.
StalledFlowDef == CHOOSE d \in EngineDefs : Len(d.Nodes) = 2 /\ Len(d.Wires) = 1

\* That Flow as DeployFlow on a running Engine leaves it: built, installed and
\* started.
StalledFlow ==
    FlowStart(NewFlow("f1", StalledFlowDef, BuiltinTypes).flow, 1, <<"A", "B">>, {}).flow

\* A running Engine after DeployFlow("f1", StalledFlowDef): the definition is
\* in the store, the Flow in the table and running; node is its Node A.
InitEngineLock ==
    /\ msgs = <<>>
    /\ hdrs = <<>>
    /\ metas = <<>>
    /\ cells = <<>>
    /\ snap = <<>>
    /\ nmut = 0
    /\ RegistryIdle
    /\ json = NoJSON
    /\ LockIdle
    /\ held = NoHeld
    /\ healed = FALSE
    /\ ecall = NoEngineCall
    /\ elock = EngineLockFree
    /\ node = StalledFlow.Nodes["A"]
    /\ hist = "new"
    /\ pc = "idle"
    /\ sPort = 0
    /\ sMsg = 0
    /\ sIdx = 0
    /\ sResult = "none"
    /\ sRunning = FALSE
    /\ log = <<>>
    /\ lc = NoCall
    /\ chain = NoChain
    /\ dep = NoDeploy
    /\ def = StalledFlowDef
    /\ registry = BuiltinTypes
    /\ storage = [id \in {"f1"} |-> StalledFlowDef]
    /\ flows = [id \in {"f1"} |-> 1]
    /\ fheap = <<StalledFlow>>
    /\ estatus = "running"
    /\ ectx = 1
    /\ res = NoResult
    /\ nops = 0

EngineLockFrame ==
    UNCHANGED <<heapVars, hist, pc, sPort, sMsg, sIdx, sResult, sRunning, log, lc,
                registry, nops, chainVars, regVars, json, handlerVars>>

\* What a step that is not the body of an Engine call leaves alone.
EngineTableFrame == UNCHANGED <<def, storage, flows, fheap, estatus, ectx, res>>

\* Node.Send by goroutine t: RLock, the running and port tests, then
\* target.OnMessage is called (or the error is returned and the lock released).
StallSendEnter(t) ==
    /\ th[t].pc = "idle"
    /\ ncalls < MaxLockCalls
    /\ ncalls' = ncalls + 1
    /\ NodeCanRLock(nlock)
    /\ IF SendEntry(node, 0) = "loop"
       THEN /\ nlock' = [nlock EXCEPT !.readers[t] = @ + 1]
            /\ th' = [th EXCEPT ![t] = [NoThreadCall EXCEPT !.op = "send", !.pc = "deliver"]]
       ELSE /\ th' = [th EXCEPT ![t] = [NoThreadCall EXCEPT !.op = "send", !.err = SendEntry(node, 0)]]
            /\ UNCHANGED nlock
    /\ UNCHANGED <<node, elock>>
    /\ EngineTableFrame
    /\ EngineLockFrame

\* The behaviour's OnMessage returns; Send returns and releases the read lock.
StallOnMessageReturns(t) ==
    /\ th[t].pc = "deliver"
    /\ nlock' = [nlock EXCEPT !.readers[t] = @ - 1]
    /\ th' = [th EXCEPT ![t].pc = "idle", ![t].err = "ok"]
    /\ UNCHANGED <<node, elock, ncalls>>
    /\ EngineTableFrame
    /\ EngineLockFrame

\* The behaviour's OnMessage is one that never returns.
StallOnMessageBlocks(t) ==
    /\ th[t].pc = "deliver"
    /\ th' = [th EXCEPT ![t].pc = "stalled"]
    /\ UNCHANGED <<node, nlock, elock, ncalls>>
    /\ EngineTableFrame
    /\ EngineLockFrame

\* GetFlow, ListFlows or Status called: e.mu.RLock() is reached.
AccessorBegin(t) ==
    /\ \E op \in AccessorOps : CallBegin(t, op, "rlock")
    /\ UNCHANGED <<node, nlock, elock>>
    /\ EngineTableFrame
    /\ EngineLockFrame

\* e.mu.RLock() returns.
AccessorAcquire(t) ==
    /\ th[t].op \in AccessorOps
    /\ th[t].pc = "rlock"
    /\ EngineCanRLock(elock)
    /\ elock' = [elock EXCEPT !.readers = @ \cup {t}]
    /\ th' = [th EXCEPT ![t].pc = "return"]
    /\ UNCHANGED <<node, nlock, ncalls>>
    /\ EngineTableFrame
    /\ EngineLockFrame

\* The accessor reads and returns: the deferred RUnlock.
AccessorReturn(t) ==
    /\ th[t].op \in AccessorOps
    /\ th[t].pc = "return"
    /\ elock' = [elock EXCEPT !.readers = @ \ {t}]
    /\ th' = [th EXCEPT ![t].pc = "idle", ![t].err = "ok"]
    /\ UNCHANGED <<node, nlock, ncalls>>
    /\ EngineTableFrame
    /\ EngineLockFrame

\* DeployFlow("f1", d), DeleteFlow("f1") or Engine.Stop called: e.mu.Lock() is
\* reached.
EngineWriterBegin ==
    /\ \E op \in EngineWriterOps :
         /\ op = "deploy" => Len(fheap) < MaxFlowObjects
         /\ op = "enginestop" => ectx < MaxCtx
         /\ CallBegin(Controller, op, "lock")
    /\ \E d \in EngineDefs : def' = IF th'[Controller].op = "deploy" THEN d ELSE def
    /\ elock' = [elock EXCEPT !.waiting = @ \cup {Controller}]
    /\ UNCHANGED <<node, nlock, storage, flows, fheap, estatus, ectx, res>>
    /\ EngineLockFrame

\* The call's Flow.Stop reaches the senders' Node: the Flow is the one the call
\* stops (the table holds it) and it is running, so that Stop is called on
\* each of its Nodes.
StopsSendersFlow == 1 \in Installed /\ fheap[1].status = "running"

\* Flow.Stop of a running Flow, the part of its range over f.Nodes that comes
\* before Node n: Stop is called on each Node visited, the status is not yet set.
FlowStopBefore(f, order, n) ==
    [f EXCEPT !.Nodes = [m \in DOMAIN f.Nodes |->
                           IF \E i, j \in DOMAIN order : i < j /\ order[i] = m /\ order[j] = n
                           THEN NodeStop(f.Nodes[m]).node
                           ELSE f.Nodes[m]]]

\* e.mu.Lock() returns.  Engine.Stop on an Engine that is not running returns
\* its error; on a running one it cancels and replaces the Engine's context
\* before it stops any Flow.  The call then stops the Flow the table holds, and
\* when that is the senders' Flow, running, Flow.Stop ranges over its Nodes in
\* any order up to the senders' Node, where Node.Stop reaches n.mu.Lock().
EngineWriterAcquire ==
    /\ th[Controller].op \in EngineWriterOps
    /\ th[Controller].pc = "lock"
    /\ EngineCanLock(elock)
    /\ elock' = [elock EXCEPT !.writer = Controller, !.waiting = @ \ {Controller}]
    /\ IF th[Controller].op = "enginestop" /\ estatus # "running"
       THEN /\ th' = [th EXCEPT ![Controller].pc = "return", ![Controller].err = "NotRunning"]
            /\ UNCHANGED <<nlock, ectx, fheap>>
       ELSE /\ ectx' = IF th[Controller].op = "enginestop" THEN ectx + 1 ELSE ectx
            /\ IF ~StopsSendersFlow
               THEN /\ th' = [th EXCEPT ![Controller].pc = "return"]
                    /\ UNCHANGED <<nlock, fheap>>
               ELSE /\ th' = [th EXCEPT ![Controller].pc = "nodelock"]
                    /\ nlock' = [nlock EXCEPT !.waiting = @ \cup {Controller}]
                    /\ \E perm \in Perms(NodeIds) :
                         fheap' = SeqSet(fheap, 1,
                                         FlowStopBefore(fheap[1], FlowStopVisits(fheap[1], perm), "A"))
    /\ UNCHANGED <<node, ncalls, def, storage, flows, estatus, res>>
    /\ EngineLockFrame

\* n.mu.Lock() returns inside Node.Stop; the Node is stopped and its lock
\* released, Flow.Stop goes on to the Nodes its range has not visited and
\* marks the senders' Flow stopped.
EngineWriterStopsNode ==
    /\ th[Controller].pc = "nodelock"
    /\ NodeCanLock(nlock)
    /\ nlock' = [nlock EXCEPT !.waiting = @ \ {Controller}]
    /\ node' = NodeStop(node).node
    /\ fheap' = SeqSet(fheap, 1, FlowStop(fheap[1]))
    /\ th' = [th EXCEPT ![Controller].pc = "return"]
    /\ UNCHANGED <<elock, ncalls, def, storage, flows, estatus, ectx, res>>
    /\ EngineLockFrame

\* The rest of the Engine call and its return, the deferred Unlock: DeployFlow
\* saves, builds, installs and starts the new Flow; DeleteFlow removes the
\* entry and returns what storage.DeleteFlow returns; Engine.Stop, its context
\* replaced already, stops the Flows the table holds and sets the status.
EngineWriterReturn ==
    /\ th[Controller].op \in EngineWriterOps
    /\ th[Controller].pc = "return"
    /\ elock' = [elock EXCEPT !.writer = 0]
    /\ CASE th[Controller].op = "deploy" ->
              /\ \E saveOk \in BOOLEAN, perm \in Perms(NodeIds), fails \in SUBSET NodeIds :
                   DeployFlow("f1", def, saveOk, perm, fails)
              /\ UNCHANGED <<estatus, ectx>>
         [] th[Controller].op = "delete" ->
              /\ \E delOk \in BOOLEAN : DeleteFlow("f1", delOk)
              /\ UNCHANGED <<estatus, ectx>>
         [] th[Controller].op = "enginestop" ->
              /\ res' = [NoResult EXCEPT !.op = "enginestop", !.was = estatus,
                                         !.err = IF th[Controller].err = "" THEN "ok"
                                                 ELSE th[Controller].err]
              /\ IF th[Controller].err # ""
                 THEN UNCHANGED <<fheap, estatus>>
                 ELSE /\ fheap' = [a \in DOMAIN fheap |->
                                      IF a \in Installed THEN FlowStop(fheap[a]) ELSE fheap[a]]
                      /\ estatus' = "stopped"
              /\ UNCHANGED <<storage, flows, ectx>>
    /\ th' = [th EXCEPT ![Controller].pc = "idle", ![Controller].err = res'.err]
    /\ UNCHANGED <<node, nlock, ncalls, def>>
    /\ EngineLockFrame

EngineWriterStep ==
    \/ EngineWriterBegin
    \/ EngineWriterAcquire
    \/ EngineWriterStopsNode
    \/ EngineWriterReturn

NextEngineLock ==
    \/ \E t \in Senders : StallSendEnter(t)
    \/ \E t \in Senders : StallOnMessageReturns(t)
    \/ \E t \in Senders : StallOnMessageBlocks(t)
    \/ \E t \in Senders : AccessorBegin(t)
    \/ \E t \in Senders : AccessorAcquire(t)
    \/ \E t \in Senders : AccessorReturn(t)
    \/ EngineWriterBegin
    \/ EngineWriterAcquire
    \/ EngineWriterStopsNode
    \/ EngineWriterReturn

\* Every goroutine that can take a step of its call takes it in the end; a
\* behaviour's OnMessage that is not one that never returns does return.
SpecEngineLockFair ==
    /\ InitEngineLock
    /\ [][NextEngineLock]_vars
    /\ WF_vars(EngineWriterStep)
    /\ \A t \in Senders :
         /\ WF_vars(StallOnMessageReturns(t) \/ StallOnMessageBlocks(t))
         /\ WF_vars(AccessorAcquire(t))
         /\ WF_vars(AccessorReturn(t))

\* C38: every GetFlow, ListFlows and Status call returns in the end, also while
\* the OnMessage a Send has called never returns and a DeployFlow, DeleteFlow or
\* Engine.Stop for that Flow has been called.
C38_AccessorsStayAvailable ==
    \A t \in Senders :
        (th[t].op \in AccessorOps /\ th[t].pc # "idle") ~> (th[t].pc = "idle")

====
